---- MODULE Spec2Model ----
(***************************************************************************)
(* State-machine model of the activation-transaction database             *)
(* (src/activation/atxdb.go): the ATX store and its indices, the two       *)
(* caches, the validators, ProcessAtx and StoreAtx, and the block-DAG      *)
(* traversal that recounts the active set; and of the ping protocol of     *)
(* peer discovery (src/p2p/discovery/ping.go).                             *)
(***************************************************************************)
EXTENDS Integers, Sequences, FiniteSets, TLC

VARIABLES
    db,             \* the two key-value stores: db.atxs (bodies), db.nipsts,
                    \* db.pos (posAtxKey), db.counter (epoch counters), db.last (node -> id)
    atxCache,       \* ActivationDb.atxCache: id -> decoded ATX
    activesetCache, \* process-wide activesetCache: view hash -> count
    blocks,         \* the mesh: block id -> [LayerIndex, AtxIds, ViewEdges]
    pending,        \* ATXs that passed SyntacticallyValidateAtx, not yet handed to ProcessAtx
    lock,           \* ActivationDb.RWMutex [writer, readers], nipstLock [nipstWriter, nipstReaders]
                    \* and processAtxMutex [processAtx: the threads holding it]
    pc,             \* per thread: position inside StoreAtx
    call,           \* per thread: the arguments of the running call [ech, atx, val]
    ids,            \* IdStore: the node identities stored so far
    order,          \* history: ids in the order their body was written
    accepted,       \* history: <<epoch, id>> of every StoreAtx that found the ATX absent and committed it
    failed,         \* history: <<step, id>> of every Put that failed
    passed,         \* history: the ATXs a ProcessAtx thread found contextually valid
    lastOp,         \* history: which operation took the last step, and how it ended
    table,          \* discovery: the address book, peer -> [known, needsPing]
    handler,        \* discovery: the running ping request handler [pc, from, valid, n, task]
    pings,          \* discovery: the Ping calls launched by the handler, by number:
                    \* [peer, pc, cb (response callback), ch (its channel), msg, err]
    wire            \* history: <<"pong", n>> and <<"ping", n>> in the order they were sent

vars == <<db, atxCache, activesetCache, blocks, pending, lock, pc, call, ids,
          order, accepted, failed, passed, lastOp, table, handler, pings, wire>>

\* the state of the ATX database and the state of the ping protocol
atxVars == <<db, atxCache, activesetCache, blocks, pending, lock, pc, call, ids,
             order, accepted, failed, passed>>
pingVars == <<table, handler, pings, wire>>

----------------------------------------------------------------------------
(* Program constants and model bounds *)

LayersPerEpoch == 2

NumNodes == 2
MaxLayer == 4
MaxSeq == 1
MaxAtxs == 2
MaxBlocks == 2
MaxActive == 1
MaxPending == 1
MaxFailures == 1
NumThreads == 2
MaxProcessed == 3

Nodes == 1..NumNodes
Layers == 0..MaxLayer
BlockIds == 1..MaxBlocks
Threads == 1..NumThreads
Nipsts == {"valid", "invalid"}

NumPeers == 2
MaxIncoming == 2

Peers == 1..NumPeers
PingIds == 1..MaxIncoming

----------------------------------------------------------------------------
(* types: ids, epochs *)

EmptyAtxId == <<"empty">>

\* AtxId: hash of the canonical encoding with the NIPST left out (injective on the content)
Id(atx) ==
    <<"atx", atx.NodeId, atx.Sequence, atx.PrevATXId, atx.PositioningAtx,
      atx.PubLayerIdx, atx.ActiveSetSize, atx.View>>

GetEpoch(layer) == layer \div LayersPerEpoch

TargetEpoch(atx) == GetEpoch(atx.PubLayerIdx) + 1

IsGenesis(epoch) == epoch = 0

Epochs == 0..(GetEpoch(MaxLayer) + 1)

NoNipst == "nil"

\* the ATX as StoreAtx leaves it in memory and encodes it: atx.Nipst = nil
Detached(atx) == [atx EXCEPT !.Nipst = NoNipst]

\* common.BytesToHash(types.ViewAsBytes(view)): the cache key
ViewHash(view) == <<"view", view>>

----------------------------------------------------------------------------
(* key-value store helpers: a store is a function from its keys *)

Has(kv, k) == k \in DOMAIN kv

Put(kv, k, v) == (k :> v) @@ kv

EmptyDb ==
    [atxs |-> <<>>, nipsts |-> <<>>, pos |-> <<>>, counter |-> <<>>, last |-> <<>>]

posAtxKey == "posAtxKey"

----------------------------------------------------------------------------
(* StoreAtx and its steps, as functions of the store *)

\* putAtx losing the body
putAtxLost(d, atx) == d

\* storeAtxUnlocked, second write: the body, NIPST detached
putAtx(d, atx) == [d EXCEPT !.atxs = Put(d.atxs, Id(atx), Detached(atx))]

\* storeAtxUnlocked writing the body where the NIPST blob belongs first
putNipstSwapped(d, atx) == putAtx(d, atx)

\* storeAtxUnlocked, first write: the NIPST blob
putNipst(d, atx) == [d EXCEPT !.nipsts = Put(d.nipsts, Id(atx), atx.Nipst)]

storeAtxUnlocked(d, atx) == putAtx(putNipst(d, atx), atx)

\* updatePosAtxIfNeeded keeping the record only when its layer is strictly higher
updatePosAtxOnTies(d, atx) ==
    IF Has(d.pos, posAtxKey) /\ d.pos[posAtxKey].LayerId > atx.PubLayerIdx
    THEN d
    ELSE [d EXCEPT !.pos = Put(d.pos, posAtxKey,
                                [AtxId |-> Id(atx), LayerId |-> atx.PubLayerIdx])]

updatePosAtxIfNeeded(d, atx) ==
    IF Has(d.pos, posAtxKey) /\ d.pos[posAtxKey].LayerId >= atx.PubLayerIdx
    THEN d
    ELSE [d EXCEPT !.pos = Put(d.pos, posAtxKey,
                                [AtxId |-> Id(atx), LayerId |-> atx.PubLayerIdx])]

\* the value incValidAtxCounter writes, from the value it read (0: key absent)
counterRead(d, ech) == IF Has(d.counter, ech) THEN d.counter[ech] ELSE 0

counterWrite(d, ech, val) == [d EXCEPT !.counter = Put(d.counter, ech, val + 1)]

incValidAtxCounter(d, ech) == counterWrite(d, ech, counterRead(d, ech))

addAtxToNodeId(d, atx) == [d EXCEPT !.last = Put(d.last, atx.NodeId, Id(atx))]

\* StoreAtx without its existence test
atxExistsNever(d, atx) == FALSE

\* the existence test that opens StoreAtx
atxExists(d, atx) == Has(d.atxs, Id(atx))

\* StoreAtx with every write succeeding
StoreAtxDb(d, ech, atx) ==
    IF atxExists(d, atx)
    THEN d
    ELSE addAtxToNodeId(
             incValidAtxCounter(
                 updatePosAtxIfNeeded(storeAtxUnlocked(d, atx), atx), ech), atx)

----------------------------------------------------------------------------
(* queries *)

\* a validator that counts the ATX it has looked at
afterGetsCounting(d) == incValidAtxCounter(d, 0)

\* the store the validators leave: they reach it through db.atxs.Get only
\* (GetAtx line 475, GetNodeLastAtxId line 428), which writes nothing
afterGets(d) == d

GetNodeLastAtxId(d, nodeId) ==
    IF Has(d.last, nodeId) THEN [err |-> "nil", id |-> d.last[nodeId]]
    ELSE [err |-> "ErrNotFound", id |-> EmptyAtxId]

ActiveSetSize(d, epochId) ==
    IF Has(d.counter, epochId) THEN [err |-> "nil", val |-> d.counter[epochId]]
    ELSE [err |-> "ErrNotFound", val |-> 0]

\* GetAtx: the result, from the cache first, then the store
GetAtx(d, cache, id) ==
    IF id = EmptyAtxId THEN [err |-> "empty"]
    ELSE IF Has(cache, id) THEN [err |-> "nil", atx |-> cache[id]]
    ELSE IF Has(d.atxs, id) THEN [err |-> "nil", atx |-> d.atxs[id]]
    ELSE [err |-> "ErrNotFound"]

\* GetAtx adding an entry for an id it did not find
GetAtxCacheNegative(d, cache, id) ==
    IF id # EmptyAtxId /\ ~Has(cache, id) THEN Put(cache, id, id) ELSE cache

\* GetAtx: the cache it leaves (a miss that finds the body adds it)
GetAtxCache(d, cache, id) ==
    IF id # EmptyAtxId /\ ~Has(cache, id) /\ Has(d.atxs, id)
    THEN Put(cache, id, d.atxs[id])
    ELSE cache

\* getCurrentAtxIdAndLayer: the posAtx record
getCurrentAtxIdAndLayer(d) ==
    IF Has(d.pos, posAtxKey)
    THEN [err |-> "nil", AtxId |-> d.pos[posAtxKey].AtxId, LayerId |-> d.pos[posAtxKey].LayerId]
    ELSE [err |-> "ErrNotFound", AtxId |-> EmptyAtxId, LayerId |-> 0]

\* GetPosAtxId without the epoch comparison of line 441
GetPosAtxIdAnyEpoch(d, epochId) ==
    LET idAndLayer == getCurrentAtxIdAndLayer(d)
    IN  IF idAndLayer.err # "nil" THEN [err |-> idAndLayer.err, id |-> EmptyAtxId]
        ELSE [err |-> "nil", id |-> idAndLayer.AtxId]

GetPosAtxId(d, epochId) ==
    LET idAndLayer == getCurrentAtxIdAndLayer(d)
    IN  IF idAndLayer.err # "nil" THEN [err |-> idAndLayer.err, id |-> EmptyAtxId]
        ELSE IF GetEpoch(idAndLayer.LayerId) # epochId
        THEN [err |-> "WrongEpoch", id |-> EmptyAtxId]
        ELSE [err |-> "nil", id |-> idAndLayer.AtxId]

\* ids.GetIdentity: the node registered under an ed key
GetIdentity(idStore, edId) ==
    IF edId \in idStore THEN [err |-> "nil", nodeId |-> edId]
    ELSE [err |-> "ErrNotFound", nodeId |-> 0]

Inactive(err) == [active |-> FALSE, id |-> EmptyAtxId, err |-> err]

\* IsIdentityActive answering with whichever ATX it ends on, its target epoch unread
IsIdentityActiveAnyTarget(d, cache, idStore, edId, layer) ==
    LET epoch == GetEpoch(layer)
        ident == GetIdentity(idStore, edId)
        last == GetNodeLastAtxId(d, ident.nodeId)
        atx == GetAtx(d, cache, last.id)
        prev == GetAtx(d, cache, atx.atx.PrevATXId)
    IN  IF epoch = 0 THEN [active |-> TRUE, id |-> EmptyAtxId, err |-> "nil"]
        ELSE IF ident.err # "nil" THEN Inactive("nil")
        ELSE IF last.err # "nil" THEN Inactive(last.err)
        ELSE IF atx.err # "nil" THEN Inactive("nil")
        ELSE IF TargetEpoch(atx.atx) > epoch
        THEN IF atx.atx.PrevATXId = EmptyAtxId THEN Inactive("nil")
             ELSE IF prev.err # "nil" THEN Inactive("nil")
             ELSE [active |-> TRUE, id |-> Id(prev.atx), err |-> "nil"]
        ELSE [active |-> TRUE, id |-> Id(atx.atx), err |-> "nil"]

\* IsIdentityActive swallowing the error of GetNodeLastAtxId
IsIdentityActiveSwallow(d, cache, idStore, edId, layer) ==
    LET epoch == GetEpoch(layer)
        ident == GetIdentity(idStore, edId)
        last == GetNodeLastAtxId(d, ident.nodeId)
        atx == GetAtx(d, cache, last.id)
        prev == GetAtx(d, cache, atx.atx.PrevATXId)
    IN  IF epoch = 0 THEN [active |-> TRUE, id |-> EmptyAtxId, err |-> "nil"]
        ELSE IF ident.err # "nil" THEN Inactive("nil")
        ELSE IF last.err # "nil" THEN Inactive("nil")
        ELSE IF atx.err # "nil" THEN Inactive("nil")
        ELSE IF TargetEpoch(atx.atx) < epoch THEN Inactive("nil")
        ELSE IF TargetEpoch(atx.atx) > epoch
        THEN IF atx.atx.PrevATXId = EmptyAtxId THEN Inactive("nil")
             ELSE IF prev.err # "nil" THEN Inactive("nil")
             ELSE [active |-> TargetEpoch(prev.atx) = epoch, id |-> Id(prev.atx), err |-> "nil"]
        ELSE [active |-> TRUE, id |-> Id(atx.atx), err |-> "nil"]

\* IsIdentityActive: (active, atxId, err)
IsIdentityActive(d, cache, idStore, edId, layer) ==
    LET epoch == GetEpoch(layer)
        ident == GetIdentity(idStore, edId)
        last == GetNodeLastAtxId(d, ident.nodeId)
        atx == GetAtx(d, cache, last.id)
        prev == GetAtx(d, cache, atx.atx.PrevATXId)
    IN  IF epoch = 0 THEN [active |-> TRUE, id |-> EmptyAtxId, err |-> "nil"]
        ELSE IF ident.err # "nil" THEN Inactive("nil")
        ELSE IF last.err # "nil" THEN Inactive(last.err)
        ELSE IF atx.err # "nil" THEN Inactive("nil")
        ELSE IF TargetEpoch(atx.atx) < epoch THEN Inactive("nil")
        ELSE IF TargetEpoch(atx.atx) > epoch
        THEN IF atx.atx.PrevATXId = EmptyAtxId THEN Inactive("nil")
             ELSE IF prev.err # "nil" THEN Inactive("nil")
             ELSE [active |-> TargetEpoch(prev.atx) = epoch, id |-> Id(prev.atx), err |-> "nil"]
        ELSE [active |-> TRUE, id |-> Id(atx.atx), err |-> "nil"]

\* IsIdentityActive: the ATX cache as its GetAtx calls leave it
IsIdentityActiveCache(d, cache, idStore, edId, layer) ==
    LET ident == GetIdentity(idStore, edId)
        last == GetNodeLastAtxId(d, ident.nodeId)
        atx == GetAtx(d, cache, last.id)
        c1 == GetAtxCache(d, cache, last.id)
    IN  IF GetEpoch(layer) = 0 \/ ident.err # "nil" \/ last.err # "nil" THEN cache
        ELSE IF atx.err # "nil" \/ TargetEpoch(atx.atx) <= GetEpoch(layer) THEN c1
        ELSE GetAtxCache(d, c1, atx.atx.PrevATXId)

----------------------------------------------------------------------------
(* the mesh traversal and the active-set count *)

RECURSIVE Reach(_, _)
\* the blocks reachable from S along ViewEdges
Reach(blks, S) ==
    LET S2 == S \cup UNION {blks[b].ViewEdges : b \in S}
    IN  IF S2 = S THEN S ELSE Reach(blks, S2)

\* meshDb.ForBlockInView: the blocks handed to the callback, or an error when the
\* view names a block the mesh does not hold
ForBlockInView(blks, view, layer) ==
    IF ~(view \subseteq DOMAIN blks)
    THEN [err |-> "block not found", visited |-> {}]
    ELSE [err |-> "nil",
          visited |-> {b \in Reach(blks, view) : blks[b].LayerIndex >= layer}]

\* traversalFunc without the epoch test of line 101
traversalIdsAllEpochs(blks, visited, countingEpoch) ==
    UNION {blks[b].AtxIds : b \in visited}

\* traversalFunc over all visited blocks: the ids it looks up (each once)
traversalIds(blks, visited, countingEpoch) ==
    UNION {blks[b].AtxIds :
             b \in {v \in visited : GetEpoch(blks[v].LayerIndex) = countingEpoch}}

\* the uncached part of CalcActiveSetFromView (lines 90-134)
countFromView(d, cache, blks, a) ==
    LET pubEpoch == GetEpoch(a.PubLayerIdx)
        countingEpoch == pubEpoch - 1
        firstLayerOfLastEpoch == countingEpoch * LayersPerEpoch
        trav == ForBlockInView(blks, a.View, firstLayerOfLastEpoch)
        looked == traversalIds(blks, trav.visited, countingEpoch)
    IN  IF pubEpoch < 1 THEN [err |-> "epoch<1", count |-> 0, looked |-> {}]
        ELSE IF trav.err # "nil" THEN [err |-> trav.err, count |-> 0, looked |-> {}]
        ELSE IF \E id \in looked : GetAtx(d, cache, id).err # "nil"
        THEN [err |-> "panic", count |-> 0, looked |-> looked]
        ELSE [err |-> "nil",
              count |-> Cardinality({id \in looked :
                           TargetEpoch(GetAtx(d, cache, id).atx) = pubEpoch}),
              looked |-> looked]

\* CalcActiveSetFromView: result, and the two caches as it leaves them
CalcActiveSetFromView(d, cache, asc, blks, a) ==
    LET hash == ViewHash(a.View)
        r == countFromView(d, cache, blks, a)
        cache2 == [id \in DOMAIN cache \cup (r.looked \cap DOMAIN d.atxs) |->
                      IF Has(cache, id) THEN cache[id] ELSE d.atxs[id]]
    IN  IF Has(asc, hash)
        THEN [err |-> "nil", count |-> asc[hash], asc |-> asc, cache |-> cache]
        ELSE IF r.err # "nil"
        THEN [err |-> r.err, count |-> 0, asc |-> asc, cache |-> cache2]
        ELSE [err |-> "nil", count |-> r.count,
              asc |-> Put(asc, hash, r.count), cache |-> cache2]

----------------------------------------------------------------------------
(* the validators *)

\* checkPrev without the sequence comparison of line 164
checkPrevNoSequence(d, cache, atx) ==
    IF atx.PrevATXId # EmptyAtxId
    THEN LET prev == GetAtx(d, cache, atx.PrevATXId)
         IN  IF prev.err # "nil" THEN "PrevAtxNotFound"
             ELSE IF prev.atx.NodeId # atx.NodeId THEN "PrevAtxIdentityMismatch"
             ELSE "nil"
    ELSE IF atx.Sequence # 0 THEN "NonZeroSequenceWithoutPrev" ELSE "nil"

\* checkPrev without the identity comparison of line 160
checkPrevNoIdentity(d, cache, atx) ==
    IF atx.PrevATXId # EmptyAtxId
    THEN LET prev == GetAtx(d, cache, atx.PrevATXId)
         IN  IF prev.err # "nil" THEN "PrevAtxNotFound"
             ELSE IF prev.atx.Sequence + 1 # atx.Sequence THEN "SequenceNotMonotonic"
             ELSE "nil"
    ELSE IF atx.Sequence # 0 THEN "NonZeroSequenceWithoutPrev" ELSE "nil"

\* step 1 of SyntacticallyValidateAtx: the previous-ATX chain
checkPrev(d, cache, atx) ==
    IF atx.PrevATXId # EmptyAtxId
    THEN LET prev == GetAtx(d, cache, atx.PrevATXId)
         IN  IF prev.err # "nil" THEN "PrevAtxNotFound"
             ELSE IF prev.atx.NodeId # atx.NodeId THEN "PrevAtxIdentityMismatch"
             ELSE IF prev.atx.Sequence + 1 # atx.Sequence THEN "SequenceNotMonotonic"
             ELSE "nil"
    ELSE IF atx.Sequence # 0 THEN "NonZeroSequenceWithoutPrev" ELSE "nil"

\* checkPos rejecting a distance of exactly one epoch
checkPosShort(d, cache, atx) ==
    IF atx.PositioningAtx # EmptyAtxId
    THEN LET pos == GetAtx(d, cache, atx.PositioningAtx)
         IN  IF pos.err # "nil" THEN "PosAtxNotFound"
             ELSE IF atx.PubLayerIdx <= pos.atx.PubLayerIdx THEN "PosAtxNotBefore"
             ELSE IF atx.PubLayerIdx - pos.atx.PubLayerIdx >= LayersPerEpoch
             THEN "PosAtxTooOld"
             ELSE "nil"
    ELSE IF ~IsGenesis(GetEpoch(atx.PubLayerIdx)) THEN "MissingPosAtx" ELSE "nil"

\* step 2: the positioning ATX
checkPos(d, cache, atx) ==
    IF atx.PositioningAtx # EmptyAtxId
    THEN LET pos == GetAtx(d, cache, atx.PositioningAtx)
         IN  IF pos.err # "nil" THEN "PosAtxNotFound"
             ELSE IF atx.PubLayerIdx <= pos.atx.PubLayerIdx THEN "PosAtxNotBefore"
             ELSE IF atx.PubLayerIdx - pos.atx.PubLayerIdx > LayersPerEpoch
             THEN "PosAtxTooOld"
             ELSE "nil"
    ELSE IF ~IsGenesis(GetEpoch(atx.PubLayerIdx)) THEN "MissingPosAtx" ELSE "nil"

\* steps 3 and 4, given the result of CalcActiveSetFromView
checkActiveSetAndNipst(atx, calc) ==
    IF calc.err # "nil" /\ ~IsGenesis(GetEpoch(atx.PubLayerIdx)) THEN "ActiveSetCalcFailed"
    ELSE IF atx.ActiveSetSize # calc.count THEN "ActiveSetMismatch"
    ELSE IF atx.Nipst # "valid" THEN "NipstInvalid"
    ELSE "nil"

\* SyntacticallyValidateAtx running the positioning check before the previous-ATX check
SyntacticallyValidateAtxPosFirst(d, cache, asc, blks, atx) ==
    LET e2 == checkPos(d, cache, atx)
        c1 == GetAtxCache(d, cache, atx.PositioningAtx)
        e1 == checkPrev(d, c1, atx)
        c2 == GetAtxCache(d, c1, atx.PrevATXId)
        calc == CalcActiveSetFromView(d, c2, asc, blks, atx)
    IN  IF e2 # "nil" THEN [err |-> e2, cache |-> c1, asc |-> asc]
        ELSE IF e1 # "nil" THEN [err |-> e1, cache |-> c2, asc |-> asc]
        ELSE [err |-> checkActiveSetAndNipst(atx, calc),
              cache |-> calc.cache, asc |-> calc.asc]

\* SyntacticallyValidateAtx: the error (or "nil") and the caches as it leaves them
SyntacticallyValidateAtx(d, cache, asc, blks, atx) ==
    LET e1 == checkPrev(d, cache, atx)
        c1 == GetAtxCache(d, cache, atx.PrevATXId)
        e2 == checkPos(d, c1, atx)
        c2 == GetAtxCache(d, c1, atx.PositioningAtx)
        calc == CalcActiveSetFromView(d, c2, asc, blks, atx)
    IN  IF e1 # "nil" THEN [err |-> e1, cache |-> c1, asc |-> asc]
        ELSE IF e2 # "nil" THEN [err |-> e2, cache |-> c2, asc |-> asc]
        ELSE [err |-> checkActiveSetAndNipst(atx, calc),
              cache |-> calc.cache, asc |-> calc.asc]

\* ContextuallyValidateAtx accepting every ATX that names no previous ATX
ContextuallyValidateAtxAnyFirst(d, atx) ==
    LET last == GetNodeLastAtxId(d, atx.NodeId)
    IN  IF atx.PrevATXId # EmptyAtxId
        THEN IF last.err # "nil" THEN "ContextualPrevMissing"
             ELSE IF last.id # atx.PrevATXId THEN "ContextualPrevStale"
             ELSE "nil"
        ELSE "nil"

ContextuallyValidateAtx(d, atx) ==
    LET last == GetNodeLastAtxId(d, atx.NodeId)
    IN  IF atx.PrevATXId # EmptyAtxId
        THEN IF last.err # "nil" THEN "ContextualPrevMissing"
             ELSE IF last.id # atx.PrevATXId THEN "ContextualPrevStale"
             ELSE "nil"
        ELSE IF last.err = "nil" THEN "ContextualDoubleFirst" ELSE "nil"

----------------------------------------------------------------------------
(* ProcessAtx, as functions of the store *)

\* processEpoch handing over the target epoch instead
processEpochTarget(atx) == TargetEpoch(atx)

\* the epoch ProcessAtx hands to StoreAtx (line 53)
processEpoch(atx) == GetEpoch(atx.PubLayerIdx)

\* processStore returning early when the contextual validation fails
processStoreDropInvalid(d, atx) ==
    IF ContextuallyValidateAtx(d, atx) = "nil"
    THEN StoreAtxDb(d, processEpoch(atx), atx)
    ELSE d

\* ProcessAtx from line 53 on: the contextual verdict is logged, then StoreAtx runs
processStore(d, atx) == StoreAtxDb(d, processEpoch(atx), atx)

\* StoreAtx whose k-th write fails (1 NIPST, 2 body, 3 posAtx, 4 counter, 5 lastAtx):
\* the earlier writes stay, the later ones are not attempted
StoreAtxFailDb(d, ech, atx, k) ==
    IF k = 1 THEN d
    ELSE IF k = 2 THEN putNipst(d, atx)
    ELSE IF k = 3 THEN storeAtxUnlocked(d, atx)
    ELSE IF k = 4 THEN updatePosAtxIfNeeded(storeAtxUnlocked(d, atx), atx)
    ELSE incValidAtxCounter(updatePosAtxIfNeeded(storeAtxUnlocked(d, atx), atx), ech)

\* whether the k-th write is attempted at all (posAtx is written only when needed)
writeAttempted(d, atx, k) ==
    k # 3 \/ updatePosAtxIfNeeded(storeAtxUnlocked(d, atx), atx) # storeAtxUnlocked(d, atx)

----------------------------------------------------------------------------
(* inputs *)

KnownIds == {EmptyAtxId} \cup DOMAIN db.atxs

\* the ATXs a peer may send: they name stored ATXs and blocks of the mesh
AtxInputs ==
    [NodeId : Nodes, Sequence : 0..MaxSeq, PrevATXId : KnownIds,
     PositioningAtx : KnownIds, PubLayerIdx : Layers, ActiveSetSize : 0..MaxActive,
     View : SUBSET (DOMAIN blocks), Nipst : Nipsts]

\* the ATXs handed to StoreAtx directly: StoreAtx reads the id, the node, the layer
\* and the NIPST (nil when the caller replays an ATX it has stored before)
StoreInputs ==
    [NodeId : Nodes, Sequence : {0}, PrevATXId : {EmptyAtxId},
     PositioningAtx : {EmptyAtxId}, PubLayerIdx : Layers, ActiveSetSize : {0},
     View : {{}}, Nipst : {"valid", NoNipst}]

\* the ATXs the mesh has handed over before a view is counted
MeshInputs ==
    {atx \in StoreInputs :
        atx.NodeId = 1 /\ atx.Nipst = "valid" /\ atx.PubLayerIdx \in {0, LayersPerEpoch}}

\* no ATX: the record of a thread that has made no call yet
NoAtx ==
    [NodeId |-> 0, Sequence |-> 0, PrevATXId |-> EmptyAtxId, PositioningAtx |-> EmptyAtxId,
     PubLayerIdx |-> 0, ActiveSetSize |-> 0, View |-> {}, Nipst |-> NoNipst]

NoCall == [ech |-> 0, atx |-> NoAtx, val |-> 0]

\* a peer the address book has no entry for
NoAddress == [known |-> FALSE, needsPing |-> TRUE]

\* no ping request is being handled; n counts the requests handled so far
NoHandler == [pc |-> "idle", from |-> 0, valid |-> TRUE, n |-> 0, task |-> 0]

\* a Ping that has not been called
NoPing == [peer |-> 0, pc |-> "none", cb |-> "none", ch |-> "open", msg |-> "none",
           err |-> "none"]

----------------------------------------------------------------------------
(* initial state: a freshly constructed ActivationDb over empty stores *)

Init ==
    /\ db = EmptyDb
    /\ atxCache = <<>>
    /\ activesetCache = <<>>
    /\ blocks = <<>>
    /\ pending = {}
    /\ lock = [writer |-> 0, readers |-> {}, nipstWriter |-> 0, nipstReaders |-> {},
               processAtx |-> {}]
    /\ pc = [t \in Threads |-> "idle"]
    /\ call = [t \in Threads |-> NoCall]
    /\ ids = {}
    /\ order = <<>>
    /\ accepted = {}
    /\ failed = {}
    /\ passed = {}
    /\ lastOp = "init"
    /\ table = [p \in Peers |-> NoAddress]
    /\ handler = NoHandler
    /\ pings = [i \in PingIds |-> NoPing]
    /\ wire = <<>>

threadVars == <<lock, pc, call>>
meshVars == <<blocks>>
histVars == <<order, accepted, failed, passed>>

\* room for one more body in the bounded store
Room == Cardinality(DOMAIN db.atxs) < MaxAtxs

----------------------------------------------------------------------------
(* the sequential pipeline: validate, then ProcessAtx *)

\* the block handler runs SyntacticallyValidateAtx; an ATX that passes waits for ProcessAtx
Validate(atx) ==
    LET r == SyntacticallyValidateAtx(db, atxCache, activesetCache, blocks, atx)
    IN  /\ atxCache' = r.cache
        /\ activesetCache' = r.asc
        /\ pending' = IF r.err = "nil" THEN pending \cup {atx} ELSE pending
        /\ UNCHANGED pingVars
        /\ lastOp' = IF r.err = "nil" THEN "Validate:ok" ELSE "Validate:err"
        /\ db' = afterGets(db)
        /\ UNCHANGED <<blocks, ids, threadVars, histVars>>

\* ProcessAtx, every write succeeding
ProcessAtx(atx) ==
    LET eatx == GetAtx(db, atxCache, Id(atx))
        err == ContextuallyValidateAtx(db, atx)
    IN  /\ atx \in pending
        /\ pending' = pending \ {atx}
        /\ atxCache' = GetAtxCache(db, atxCache, Id(atx))
        /\ IF eatx.err = "nil"
           THEN /\ lastOp' = "ProcessAtx:exists"
                /\ UNCHANGED <<db, ids, histVars>>
           ELSE /\ Room
                /\ db' = processStore(db, atx)
                /\ ids' = ids \cup {atx.NodeId}
                /\ order' = IF atxExists(db, atx) THEN order ELSE Append(order, Id(atx))
                /\ accepted' = IF atxExists(db, atx) THEN accepted
                               ELSE accepted \cup {<<processEpoch(atx), Id(atx)>>}
                /\ failed' = failed
                /\ passed' = passed
                /\ lastOp' = IF err = "nil" THEN "ProcessAtx:valid" ELSE "ProcessAtx:invalid"
        /\ UNCHANGED <<activesetCache, blocks, threadVars>>
        /\ UNCHANGED pingVars

\* ProcessAtx whose StoreAtx fails at its k-th write; the error is logged and the
\* identity is stored all the same
ProcessAtxFail(atx, k) ==
    LET eatx == GetAtx(db, atxCache, Id(atx))
    IN  /\ atx \in pending
        /\ Cardinality(failed) < MaxFailures
        /\ eatx.err # "nil"
        /\ ~atxExists(db, atx)
        /\ Room
        /\ writeAttempted(db, atx, k)
        /\ pending' = pending \ {atx}
        /\ db' = StoreAtxFailDb(db, processEpoch(atx), atx, k)
        /\ ids' = ids \cup {atx.NodeId}
        /\ order' = IF k > 2 THEN Append(order, Id(atx)) ELSE order
        /\ failed' = failed \cup {<<k, Id(atx)>>}
        /\ UNCHANGED pingVars
        /\ lastOp' = "ProcessAtx:ioerror"
        /\ UNCHANGED <<atxCache, activesetCache, blocks, accepted, passed, threadVars>>

Next ==
    \/ Cardinality(pending) < MaxPending /\ \E atx \in AtxInputs : Validate(atx)
    \/ \E atx \in pending : ProcessAtx(atx)

Spec == Init /\ [][Next]_vars

NextFail ==
    \/ Cardinality(pending) < MaxPending /\ \E atx \in AtxInputs : Validate(atx)
    \/ \E atx \in pending : ProcessAtx(atx)
    \/ \E atx \in pending, k \in 1..5 : ProcessAtxFail(atx, k)

SpecFail == Init /\ [][NextFail]_vars

----------------------------------------------------------------------------
(* the pipeline with the queries that read what it stored *)

\* the ed keys a caller may ask about: those of the nodes
EdKeys == Nodes

\* the ATXs of the query runs: well-formed NIPST, no declared active set
QueryInputs == {atx \in AtxInputs : atx.Nipst = "valid" /\ atx.ActiveSetSize = 0}

\* a call of IsIdentityActive
IsIdentityActiveCall(edId, layer) ==
    LET r == IsIdentityActive(db, atxCache, ids, edId, layer)
    IN  /\ atxCache' = IsIdentityActiveCache(db, atxCache, ids, edId, layer)
        /\ UNCHANGED pingVars
        /\ lastOp' = IF r.err # "nil" THEN "IsIdentityActive:error"
                     ELSE IF r.active THEN "IsIdentityActive:active"
                     ELSE "IsIdentityActive:inactive"
        /\ UNCHANGED <<db, activesetCache, blocks, pending, ids, threadVars, histVars>>

\* a call of GetPosAtxId
GetPosAtxIdCall(epochId) ==
    /\ UNCHANGED pingVars
    /\ lastOp' = IF GetPosAtxId(db, epochId).err = "nil" THEN "GetPosAtxId:ok"
                 ELSE "GetPosAtxId:error"
    /\ UNCHANGED <<db, atxCache, activesetCache, blocks, pending, ids, threadVars, histVars>>

NextQuery ==
    \/ Cardinality(pending) < MaxPending /\ \E atx \in QueryInputs : Validate(atx)
    \/ \E atx \in pending : ProcessAtx(atx)
    \/ \E atx \in pending, k \in 1..5 : ProcessAtxFail(atx, k)
    \/ \E edId \in EdKeys, layer \in Layers : IsIdentityActiveCall(edId, layer)
    \/ \E epochId \in Epochs : GetPosAtxIdCall(epochId)

SpecQuery == Init /\ [][NextQuery]_vars

\* the ATXs one identity may hold in the chain runs
MaxChain == 3

\* the next ATX of an identity that publishes one ATX per epoch: it names the last ATX
\* of its node, carries the next sequence number and is published one epoch later
ChainInputs ==
    {atx \in [NodeId : {1}, Sequence : 0..(MaxChain - 1), PrevATXId : KnownIds,
              PositioningAtx : {EmptyAtxId}, PubLayerIdx : Layers, ActiveSetSize : {0},
              View : {{}}, Nipst : {"valid"}] :
        /\ checkPrev(db, atxCache, atx) = "nil"
        /\ ContextuallyValidateAtx(db, atx) = "nil"
        /\ atx.PrevATXId # EmptyAtxId =>
               GetEpoch(atx.PubLayerIdx) = GetEpoch(db.atxs[atx.PrevATXId].PubLayerIdx) + 1}

\* ProcessAtx of an ATX that is new and valid: StoreAtx, then StoreNodeIdentity
ProcessNext(atx) ==
    /\ ~atxExists(db, atx)
    /\ db' = processStore(db, atx)
    /\ ids' = ids \cup {atx.NodeId}
    /\ order' = Append(order, Id(atx))
    /\ accepted' = accepted \cup {<<processEpoch(atx), Id(atx)>>}
    /\ UNCHANGED pingVars
    /\ lastOp' = "ProcessAtx:valid"
    /\ UNCHANGED <<atxCache, activesetCache, blocks, pending, failed, passed, threadVars>>

NextChain ==
    \/ \E atx \in ChainInputs : ProcessNext(atx)
    \/ \E edId \in EdKeys, layer \in Layers : IsIdentityActiveCall(edId, layer)

SpecChain == Init /\ [][NextChain]_vars

----------------------------------------------------------------------------
(* properties of the pipeline *)

StoredIds == DOMAIN db.atxs

\* C1 as stated: an ATX that fails contextual validation inside ProcessAtx is dropped;
\* the stores are the same after the call as before it
C1_InvalidAtxDropped ==
    [][lastOp' = "ProcessAtx:invalid" => db' = db]_vars

\* C1 amended: an ATX that fails contextual validation inside ProcessAtx is stored all
\* the same: after the call its body and NIPST are in the stores, lastAtx of its node
\* names it, the counter of its publication epoch is one higher and the recorded
\* posAtx layer is at least its layer
C1_InvalidAtxStored ==
    [][lastOp' = "ProcessAtx:invalid" =>
         \E atx \in pending :
            /\ ContextuallyValidateAtx(db, atx) # "nil"
            /\ ~Has(db.atxs, Id(atx))
            /\ Has(db'.atxs, Id(atx)) /\ db'.atxs[Id(atx)] = Detached(atx)
            /\ Has(db'.nipsts, Id(atx))
            /\ Has(db'.last, atx.NodeId) /\ db'.last[atx.NodeId] = Id(atx)
            /\ counterRead(db', GetEpoch(atx.PubLayerIdx))
                 = counterRead(db, GetEpoch(atx.PubLayerIdx)) + 1
            /\ Has(db'.pos, posAtxKey)
            /\ db'.pos[posAtxKey].LayerId >= atx.PubLayerIdx]_vars

\* C1 witness: ProcessAtx has just handled an ATX whose contextual validation failed
C1_Witness == lastOp = "ProcessAtx:invalid" /\ Cardinality(StoredIds) = 2

\* C2: every stored ATX with a previous ATX has that ATX stored, from the same node,
\* with the sequence number one lower
C2_Chain ==
    \A id \in StoredIds :
        LET a == db.atxs[id]
        IN  a.PrevATXId # EmptyAtxId =>
              /\ Has(db.atxs, a.PrevATXId)
              /\ db.atxs[a.PrevATXId].NodeId = a.NodeId
              /\ db.atxs[a.PrevATXId].Sequence = a.Sequence - 1

\* C2 witness: a stored ATX extends a chain
C2_Witness == \E id \in StoredIds : db.atxs[id].PrevATXId # EmptyAtxId

\* lastAtx[n] is a stored ATX of node n that no stored ATX names as its previous one
LastHasNoSuccessor ==
    \A n \in DOMAIN db.last :
        /\ Has(db.atxs, db.last[n])
        /\ db.atxs[db.last[n]].NodeId = n
        /\ ~\E id \in StoredIds : db.atxs[id].PrevATXId = db.last[n]

TargetingCount(e) == Cardinality({id \in StoredIds : TargetEpoch(db.atxs[id]) = e})

\* the number of stored ATXs whose publication epoch is e
PublishedCount(e) ==
    Cardinality({id \in StoredIds : GetEpoch(db.atxs[id].PubLayerIdx) = e})

C9_LastIsHighestLayer ==
    \A n \in DOMAIN db.last :
        /\ Has(db.atxs, db.last[n])
        /\ \A id \in StoredIds :
              db.atxs[id].NodeId = n =>
                 db.atxs[id].PubLayerIdx <= db.atxs[db.last[n]].PubLayerIdx

----------------------------------------------------------------------------
(* StoreAtx called directly, one call at a time *)

\* StoreAtx(ech, atx), every write succeeding
StoreAtx(ech, atx) ==
    /\ atxExists(db, atx) \/ Room
    /\ db' = StoreAtxDb(db, ech, atx)
    /\ order' = IF atxExists(db, atx) THEN order ELSE Append(order, Id(atx))
    /\ accepted' = IF atxExists(db, atx) THEN accepted ELSE accepted \cup {<<ech, Id(atx)>>}
    /\ UNCHANGED pingVars
    /\ lastOp' = IF atxExists(db, atx) THEN "StoreAtx:exists" ELSE "StoreAtx:new"
    /\ UNCHANGED <<atxCache, activesetCache, blocks, pending, ids, failed, passed, threadVars>>

\* the mesh receives a block; its ATXs are in the store, its edges point to lower layers
AddBlock ==
    /\ Cardinality(DOMAIN blocks) < MaxBlocks
    /\ \E layer \in Layers, atxIds \in SUBSET StoredIds, edges \in SUBSET (DOMAIN blocks) :
          /\ \A b \in edges : blocks[b].LayerIndex < layer
          /\ blocks' = Put(blocks, Cardinality(DOMAIN blocks) + 1,
                           [LayerIndex |-> layer, AtxIds |-> atxIds, ViewEdges |-> edges])
    /\ UNCHANGED pingVars
    /\ lastOp' = "AddBlock"
    /\ UNCHANGED <<db, atxCache, activesetCache, pending, ids, threadVars, histVars>>

\* the ATXs CalcActiveSetFromView is called with: it reads the view and the layer
ViewInputs ==
    [NodeId : {1}, Sequence : {0}, PrevATXId : {EmptyAtxId},
     PositioningAtx : {EmptyAtxId}, PubLayerIdx : Layers, ActiveSetSize : {0},
     View : SUBSET BlockIds, Nipst : {"valid"}]

\* a call of CalcActiveSetFromView
CalcActiveSet(atx) ==
    LET r == CalcActiveSetFromView(db, atxCache, activesetCache, blocks, atx)
    IN  /\ r.err # "panic"
        /\ atxCache' = r.cache
        /\ activesetCache' = r.asc
        /\ UNCHANGED pingVars
        /\ lastOp' = IF Has(activesetCache, ViewHash(atx.View)) THEN "Calc:hit" ELSE "Calc:miss"
        /\ db' = afterGets(db)
        /\ UNCHANGED <<blocks, pending, ids, threadVars, histVars>>

NextStore ==
    \E ech \in Epochs, atx \in StoreInputs : StoreAtx(ech, atx)

SpecStore == Init /\ [][NextStore]_vars

NextView ==
    \/ \E atx \in MeshInputs : StoreAtx(processEpoch(atx), atx)
    \/ AddBlock
    \/ \E atx \in ViewInputs : CalcActiveSet(atx)

SpecView == Init /\ [][NextView]_vars

\* a call of ContextuallyValidateAtx on its own, as the block validation of the mesh
\* makes it
ContextualValidate(atx) ==
    LET err == ContextuallyValidateAtx(db, atx)
    IN  /\ db' = afterGets(db)
        /\ UNCHANGED pingVars
        /\ lastOp' = IF err = "nil" THEN "Contextual:ok" ELSE "Contextual:err"
        /\ UNCHANGED <<atxCache, activesetCache, blocks, pending, ids, threadVars, histVars>>

\* the ATXs the validators are called with
ValidateInputs ==
    {atx \in AtxInputs :
        /\ atx.NodeId = 1 /\ atx.Nipst = "valid"
        /\ atx.PubLayerIdx \in {0, LayersPerEpoch} /\ atx.View \in {{}, DOMAIN blocks}}

\* ContextuallyValidateAtx reads the node and the previous id
ContextualInputs ==
    {atx \in ValidateInputs :
        /\ atx.Sequence = 0 /\ atx.PositioningAtx = EmptyAtxId
        /\ atx.ActiveSetSize = 0 /\ atx.View = {}}

\* CalcActiveSetFromView reads the view and the publication layer
CalcInputs ==
    {atx \in ValidateInputs :
        /\ atx.Sequence = 0 /\ atx.PositioningAtx = EmptyAtxId
        /\ atx.ActiveSetSize = 0 /\ atx.PrevATXId = EmptyAtxId}

\* the blocks of the mesh the validators run on
MaxViewBlocks == 1

\* the three validators called on a store that ProcessAtx fills and a mesh that grows
NextValidate ==
    \/ Cardinality(pending) < MaxPending /\ \E atx \in ValidateInputs : Validate(atx)
    \/ \E atx \in pending : ProcessAtx(atx)
    \/ Cardinality(DOMAIN blocks) < MaxViewBlocks /\ AddBlock
    \/ \E atx \in ContextualInputs : ContextualValidate(atx)
    \/ \E atx \in CalcInputs : CalcActiveSet(atx)

SpecValidate == Init /\ [][NextValidate]_vars

----------------------------------------------------------------------------
(* StoreAtx step by step, called from several threads *)

\* the calls the threads make: two nodes, a layer in the first and one in the last epoch
ThreadInputs == {atx \in StoreInputs : atx.PubLayerIdx \in {0, MaxLayer} /\ atx.Nipst = "valid"}
ThreadEpochs == {0, 1}

\* StoreAtx running without the exclusive lock
canLockAlways(l) == TRUE

\* db.Lock() succeeds when nobody holds the lock
canLock(l) == l.writer = 0 /\ l.readers = {}

\* db.RLock() succeeds when no writer holds the lock (lines 355, 474)
canRLock(l) == l.writer = 0

\* nipstLock.Lock() succeeds when nobody holds it
canLockNipst(l) == l.nipstWriter = 0 /\ l.nipstReaders = {}

\* the ids whose StoreAtx is under way
InFlight == {Id(call[t].atx) : t \in {u \in Threads : pc[u] # "idle"}}

goto(t, label) == pc' = [pc EXCEPT ![t] = label]

\* a thread enters StoreAtx(ech, atx)
Call(t, ech, atx) ==
    /\ pc[t] = "idle"
    /\ Cardinality(StoredIds \cup DOMAIN db.nipsts \cup InFlight \cup {Id(atx)}) <= MaxAtxs
    /\ call' = [call EXCEPT ![t] = [ech |-> ech, atx |-> atx, val |-> 0]]
    /\ goto(t, "Lock")
    /\ UNCHANGED pingVars
    /\ lastOp' = "StoreAtx:call"
    /\ UNCHANGED <<db, atxCache, activesetCache, blocks, pending, ids, lock, histVars>>

\* line 263: db.Lock()
AcquireLock(t) ==
    /\ pc[t] = "Lock"
    /\ canLock(lock)
    /\ lock' = [lock EXCEPT !.writer = t]
    /\ goto(t, "Exists")
    /\ UNCHANGED pingVars
    /\ lastOp' = "StoreAtx:lock"
    /\ UNCHANGED <<db, atxCache, activesetCache, blocks, pending, ids, call, histVars>>

\* line 267: the ATX is stored already, return nil
CheckExists(t) ==
    /\ pc[t] = "Exists"
    /\ goto(t, IF atxExists(db, call[t].atx) THEN "Unlock" ELSE "PutNipst")
    /\ UNCHANGED pingVars
    /\ lastOp' = IF atxExists(db, call[t].atx) THEN "StoreAtx:exists" ELSE "StoreAtx:absent"
    /\ UNCHANGED <<db, atxCache, activesetCache, blocks, pending, ids, call, lock, histVars>>

\* lines 300-302: the NIPST blob, under nipstLock
PutNipst(t) ==
    /\ pc[t] = "PutNipst"
    /\ canLockNipst(lock)
    /\ db' = putNipst(db, call[t].atx)
    /\ goto(t, "PutAtx")
    /\ UNCHANGED pingVars
    /\ lastOp' = "StoreAtx:nipst"
    /\ UNCHANGED <<atxCache, activesetCache, blocks, pending, ids, call, lock, histVars>>

\* lines 307-314: the body, NIPST detached
PutAtx(t) ==
    /\ pc[t] = "PutAtx"
    /\ db' = putAtx(db, call[t].atx)
    /\ order' = Append(order, Id(call[t].atx))
    /\ goto(t, "UpdatePos")
    /\ UNCHANGED pingVars
    /\ lastOp' = "StoreAtx:body"
    /\ UNCHANGED <<atxCache, activesetCache, blocks, pending, ids, call, lock, accepted, failed,
                   passed>>

\* line 277
UpdatePos(t) ==
    /\ pc[t] = "UpdatePos"
    /\ db' = updatePosAtxIfNeeded(db, call[t].atx)
    /\ goto(t, "CounterGet")
    /\ UNCHANGED pingVars
    /\ lastOp' = "StoreAtx:pos"
    /\ UNCHANGED <<atxCache, activesetCache, blocks, pending, ids, call, lock, histVars>>

\* line 343: incValidAtxCounter reads the counter
CounterGet(t) ==
    /\ pc[t] = "CounterGet"
    /\ call' = [call EXCEPT ![t].val = counterRead(db, call[t].ech)]
    /\ goto(t, "CounterPut")
    /\ UNCHANGED pingVars
    /\ lastOp' = "StoreAtx:counterGet"
    /\ UNCHANGED <<db, atxCache, activesetCache, blocks, pending, ids, lock, histVars>>

\* lines 346, 349: incValidAtxCounter writes the value it read, plus one
CounterPut(t) ==
    /\ pc[t] = "CounterPut"
    /\ db' = counterWrite(db, call[t].ech, call[t].val)
    /\ goto(t, "AddNode")
    /\ UNCHANGED pingVars
    /\ lastOp' = "StoreAtx:counterPut"
    /\ UNCHANGED <<atxCache, activesetCache, blocks, pending, ids, call, lock, histVars>>

\* line 286: the last write; StoreAtx has committed the ATX
AddNode(t) ==
    /\ pc[t] = "AddNode"
    /\ db' = addAtxToNodeId(db, call[t].atx)
    /\ accepted' = accepted \cup {<<call[t].ech, Id(call[t].atx)>>}
    /\ goto(t, "Unlock")
    /\ UNCHANGED pingVars
    /\ lastOp' = "StoreAtx:committed"
    /\ UNCHANGED <<atxCache, activesetCache, blocks, pending, ids, call, lock, order, failed,
                   passed>>

\* a failed write followed by a return that leaves the lock held
afterFailedPutLeak(label) == "idle"

\* a failed write followed by the next step instead of the return
afterFailedPutContinue(label) ==
    CASE label = "PutNipst" -> "PutAtx"
      [] label = "PutAtx" -> "UpdatePos"
      [] label = "UpdatePos" -> "CounterGet"
      [] label = "CounterPut" -> "AddNode"
      [] OTHER -> "Unlock"

\* lines 272-274, 277-280, 282-285, 286-289: `if err != nil { return err }`
afterFailedPut(label) == "Unlock"

\* a Put returns an error: StoreAtx returns it, the later steps do not run
FailPut(t) ==
    /\ pc[t] \in {"PutNipst", "PutAtx", "UpdatePos", "CounterPut", "AddNode"}
    /\ pc[t] = "UpdatePos" => updatePosAtxIfNeeded(db, call[t].atx) # db
    /\ Cardinality(failed) < MaxFailures
    /\ failed' = failed \cup {<<pc[t], Id(call[t].atx)>>}
    /\ goto(t, afterFailedPut(pc[t]))
    /\ UNCHANGED pingVars
    /\ lastOp' = "StoreAtx:ioerror"
    /\ UNCHANGED <<db, atxCache, activesetCache, blocks, pending, ids, call, lock, order, accepted,
                   passed>>

\* line 264: the deferred db.Unlock()
Unlock(t) ==
    /\ pc[t] = "Unlock"
    /\ lock' = [lock EXCEPT !.writer = 0]
    /\ goto(t, "idle")
    /\ UNCHANGED pingVars
    /\ lastOp' = "StoreAtx:return"
    /\ UNCHANGED <<db, atxCache, activesetCache, blocks, pending, ids, call, histVars>>

NextThreads ==
    \E t \in Threads :
        \/ \E ech \in ThreadEpochs, atx \in ThreadInputs : Call(t, ech, atx)
        \/ AcquireLock(t)
        \/ CheckExists(t)
        \/ PutNipst(t)
        \/ PutAtx(t)
        \/ UpdatePos(t)
        \/ CounterGet(t)
        \/ CounterPut(t)
        \/ AddNode(t)
        \/ FailPut(t)
        \/ Unlock(t)

SpecThreads == Init /\ [][NextThreads]_vars

----------------------------------------------------------------------------
(* ProcessAtx, one thread per call *)

\* ProcessAtx running without processAtxMutex
canLockProcessAlways(l) == TRUE

\* line 43: processAtxMutex.Lock() succeeds when nobody holds the mutex
canLockProcess(l) == l.processAtx = {}

\* the ATXs of the ProcessAtx threads: one node's genesis-epoch ATXs, first ones and
\* successors, with a well-formed NIPST
ProcessInputs ==
    {atx \in AtxInputs :
        /\ atx.NodeId = 1 /\ atx.Nipst = "valid" /\ atx.ActiveSetSize = 0
        /\ atx.PositioningAtx = EmptyAtxId /\ IsGenesis(GetEpoch(atx.PubLayerIdx))}

\* a thread enters ProcessAtx with an ATX that passed SyntacticallyValidateAtx
ProcessCall(t, atx) ==
    /\ pc[t] = "idle"
    /\ t \notin lock.processAtx
    /\ atx \in pending
    /\ Cardinality(StoredIds \cup InFlight \cup {Id(atx)}) <= MaxProcessed
    /\ pending' = pending \ {atx}
    /\ call' = [call EXCEPT ![t] = [ech |-> processEpoch(atx), atx |-> atx, val |-> 0]]
    /\ goto(t, "ProcessLock")
    /\ UNCHANGED pingVars
    /\ lastOp' = "ProcessAtx:call"
    /\ UNCHANGED <<db, atxCache, activesetCache, blocks, ids, lock, histVars>>

\* line 43
ProcessLock(t) ==
    /\ pc[t] = "ProcessLock"
    /\ canLockProcess(lock)
    /\ lock' = [lock EXCEPT !.processAtx = @ \cup {t}]
    /\ goto(t, "ProcessExists")
    /\ UNCHANGED pingVars
    /\ lastOp' = "ProcessAtx:lock"
    /\ UNCHANGED <<db, atxCache, activesetCache, blocks, pending, ids, call, histVars>>

\* lines 47-52: GetAtx finds the ATX, ProcessAtx returns
ProcessExists(t) ==
    LET id == Id(call[t].atx)
        eatx == GetAtx(db, atxCache, id)
    IN  /\ pc[t] = "ProcessExists"
        /\ Has(atxCache, id) \/ canRLock(lock)
        /\ atxCache' = GetAtxCache(db, atxCache, id)
        /\ goto(t, IF eatx.err = "nil" THEN "ProcessUnlock" ELSE "ProcessValidate")
        /\ UNCHANGED pingVars
        /\ lastOp' = IF eatx.err = "nil" THEN "ProcessAtx:exists" ELSE "ProcessAtx:absent"
        /\ UNCHANGED <<db, activesetCache, blocks, pending, ids, call, lock, histVars>>

\* lines 56-61: the contextual verdict is logged; line 62 calls StoreAtx either way
ProcessValidate(t) ==
    LET err == ContextuallyValidateAtx(db, call[t].atx)
    IN  /\ pc[t] = "ProcessValidate"
        /\ passed' = IF err = "nil" THEN passed \cup {call[t].atx} ELSE passed
        /\ goto(t, "ProcessStore")
        /\ UNCHANGED pingVars
        /\ lastOp' = IF err = "nil" THEN "ProcessAtx:valid" ELSE "ProcessAtx:invalid"
        /\ UNCHANGED <<db, atxCache, activesetCache, blocks, pending, ids, call, lock,
                       order, accepted, failed>>

\* line 62: StoreAtx, from db.Lock() to db.Unlock(); the other steps of ProcessAtx read
\* the stores under RLock or read only the lastAtx entry, its last write
ProcessStore(t) ==
    LET atx == call[t].atx
    IN  /\ pc[t] = "ProcessStore"
        /\ canLock(lock)
        /\ db' = processStore(db, atx)
        /\ order' = IF atxExists(db, atx) THEN order ELSE Append(order, Id(atx))
        /\ accepted' = IF atxExists(db, atx) THEN accepted
                       ELSE accepted \cup {<<call[t].ech, Id(atx)>>}
        /\ goto(t, "ProcessIdentity")
        /\ UNCHANGED pingVars
        /\ lastOp' = "ProcessAtx:stored"
        /\ UNCHANGED <<atxCache, activesetCache, blocks, pending, ids, call, lock, failed, passed>>

\* lines 67-70 and the deferred unlock of line 44: StoreAtx has returned, the identity
\* is stored and the mutex released; after the return of line 51 only the mutex is
ProcessReturn(t) ==
    /\ t \in lock.processAtx
    /\ pc[t] \in {"ProcessIdentity", "ProcessUnlock"}
    /\ ids' = IF pc[t] = "ProcessIdentity" THEN ids \cup {call[t].atx.NodeId} ELSE ids
    /\ lock' = [lock EXCEPT !.processAtx = @ \ {t}]
    /\ goto(t, "idle")
    /\ UNCHANGED pingVars
    /\ lastOp' = "ProcessAtx:return"
    /\ UNCHANGED <<db, atxCache, activesetCache, blocks, pending, call, histVars>>

\* the ATXs validated and not yet through ProcessAtx
Outstanding == Cardinality(pending) + Cardinality({t \in Threads : pc[t] # "idle"})

NextProcess ==
    \/ Outstanding < NumThreads /\ \E atx \in ProcessInputs : Validate(atx)
    \/ \E t \in Threads :
          \/ \E atx \in pending : ProcessCall(t, atx)
          \/ ProcessLock(t)
          \/ ProcessExists(t)
          \/ ProcessValidate(t)
          \/ ProcessStore(t)
          \/ ProcessReturn(t)

SpecProcess == Init /\ [][NextProcess]_vars

----------------------------------------------------------------------------
(* queries from other goroutines while StoreAtx runs *)

\* the ids a reader may ask GetAtx for
AskedIds == StoredIds \cup DOMAIN db.nipsts \cup InFlight

\* GetNodeLastAtxId: one Get, no lock taken
GetNodeLastAtxIdCall(nodeId) ==
    /\ UNCHANGED pingVars
    /\ lastOp' = IF GetNodeLastAtxId(db, nodeId).err = "nil" THEN "GetNodeLastAtxId:ok"
                 ELSE "GetNodeLastAtxId:error"
    /\ UNCHANGED <<db, atxCache, activesetCache, blocks, pending, ids, threadVars, histVars>>

\* ActiveSetSize: one Get between RLock and RUnlock
ActiveSetSizeCall(epochId) ==
    /\ canRLock(lock)
    /\ UNCHANGED pingVars
    /\ lastOp' = IF ActiveSetSize(db, epochId).err = "nil" THEN "ActiveSetSize:ok"
                 ELSE "ActiveSetSize:error"
    /\ UNCHANGED <<db, atxCache, activesetCache, blocks, pending, ids, threadVars, histVars>>

\* GetAtx: a cache hit without the lock, else one Get between RLock and RUnlock
GetAtxCall(id) ==
    /\ Has(atxCache, id) \/ canRLock(lock)
    /\ atxCache' = GetAtxCache(db, atxCache, id)
    /\ UNCHANGED pingVars
    /\ lastOp' = IF Has(atxCache, id) THEN "GetAtx:hit"
                 ELSE IF GetAtx(db, atxCache, id).err = "nil" THEN "GetAtx:ok"
                 ELSE "GetAtx:error"
    /\ UNCHANGED <<db, activesetCache, blocks, pending, ids, threadVars, histVars>>

\* StoreAtx called as ProcessAtx calls it, its steps interleaved with the queries
NextReaders ==
    \/ \E t \in Threads :
          \/ \E atx \in ThreadInputs : Call(t, processEpoch(atx), atx)
          \/ AcquireLock(t)
          \/ CheckExists(t)
          \/ PutNipst(t)
          \/ PutAtx(t)
          \/ UpdatePos(t)
          \/ CounterGet(t)
          \/ CounterPut(t)
          \/ AddNode(t)
          \/ FailPut(t)
          \/ Unlock(t)
    \/ \E nodeId \in Nodes : GetNodeLastAtxIdCall(nodeId)
    \/ \E epochId \in Epochs : GetPosAtxIdCall(epochId)
    \/ \E epochId \in Epochs : ActiveSetSizeCall(epochId)
    \/ \E id \in AskedIds : GetAtxCall(id)

SpecReaders == Init /\ [][NextReaders]_vars

\* the bounded LRU dropping an entry
Evict(cache, id) == [k \in DOMAIN cache \ {id} |-> cache[k]]

\* an Add on the full cache evicts; which entry goes depends on the reads before it
EvictAtx(id) ==
    /\ Has(atxCache, id)
    /\ atxCache' = Evict(atxCache, id)
    /\ UNCHANGED pingVars
    /\ lastOp' = "AtxCache:evict"
    /\ UNCHANGED <<db, activesetCache, blocks, pending, ids, threadVars, histVars>>

\* lines 465-467: GetAtx(EMPTY) returns its error before the cache and the lock
GetAtxEmptyCall ==
    /\ GetAtx(db, atxCache, EmptyAtxId).err = "empty"
    /\ atxCache' = GetAtxCache(db, atxCache, EmptyAtxId)
    /\ UNCHANGED pingVars
    /\ lastOp' = "GetAtx:empty"
    /\ UNCHANGED <<db, activesetCache, blocks, pending, ids, threadVars, histVars>>

\* GetAtx and the eviction of its cache while StoreAtx runs step by step
NextCache ==
    \/ \E t \in Threads :
          \/ \E atx \in ThreadInputs : Call(t, processEpoch(atx), atx)
          \/ AcquireLock(t)
          \/ CheckExists(t)
          \/ PutNipst(t)
          \/ PutAtx(t)
          \/ UpdatePos(t)
          \/ CounterGet(t)
          \/ CounterPut(t)
          \/ AddNode(t)
          \/ FailPut(t)
          \/ Unlock(t)
    \/ \E id \in AskedIds : GetAtxCall(id)
    \/ GetAtxEmptyCall
    \/ \E id \in DOMAIN atxCache : EvictAtx(id)

SpecCache == Init /\ [][NextCache]_vars

----------------------------------------------------------------------------
(* properties of StoreAtx *)

RECURSIVE MaxOf(_)
MaxOf(S) ==
    LET x == CHOOSE y \in S : TRUE
    IN  IF S = {x} THEN x
        ELSE LET m == MaxOf(S \ {x}) IN IF x > m THEN x ELSE m

MaxStoredLayer == MaxOf({db.atxs[id].PubLayerIdx : id \in StoredIds})

\* the first id, in the order the bodies were written, published in the highest layer
FirstAtMaxLayer ==
    order[CHOOSE i \in 1..Len(order) :
            /\ db.atxs[order[i]].PubLayerIdx = MaxStoredLayer
            /\ \A j \in 1..(i - 1) : db.atxs[order[j]].PubLayerIdx # MaxStoredLayer]

PosAtxIsFirstAtMaxLayer ==
    IF StoredIds = {} THEN ~Has(db.pos, posAtxKey)
    ELSE /\ Has(db.pos, posAtxKey)
         /\ db.pos[posAtxKey].LayerId = MaxStoredLayer
         /\ db.pos[posAtxKey].AtxId = FirstAtMaxLayer

\* C5: after every completed StoreAtx the posAtx record holds the id and the layer of
\* the stored ATX with the highest publication layer, the one stored first among
\* several in that layer, and the recorded layer never decreases
C5_PosAtxFirstMax ==
    [][/\ PosAtxIsFirstAtMaxLayer'
       /\ Has(db.pos, posAtxKey) =>
             /\ Has(db'.pos, posAtxKey)
             /\ db'.pos[posAtxKey].LayerId >= db.pos[posAtxKey].LayerId]_vars

\* C5 witness: two stored ATXs share the highest layer
C5_Witness ==
    /\ Has(db.pos, posAtxKey)
    /\ Cardinality({id \in StoredIds : db.atxs[id].PubLayerIdx = db.pos[posAtxKey].LayerId}) = 2

\* C7: StoreAtx(e, a) a second time, with the same argument or with the ATX whose
\* NIPST the first call detached, writes nothing: the stores stay as the first call
\* left them
C7_StoreAtxIdempotent ==
    [][\A ech \in Epochs, atx \in StoreInputs :
          StoreAtx(ech, atx) =>
             /\ StoreAtxDb(db', ech, atx) = db'
             /\ StoreAtxDb(db', ech, Detached(atx)) = db']_vars

\* C7 witness: a StoreAtx call has found its ATX stored and returned
C7_Witness == lastOp = "StoreAtx:exists" /\ Cardinality(StoredIds) = 2

\* no thread is inside StoreAtx
Quiescent == \A t \in Threads : pc[t] \in {"idle", "Lock"}

AcceptedFor(e) == {x \in accepted : x[1] = e}

\* C10: with no failed write, whenever no StoreAtx is running the counter of epoch e
\* is the number of StoreAtx(e, _) calls that found their ATX absent and committed it
C10_NoLostCounterUpdate ==
    (failed = {} /\ Quiescent) =>
        \A e \in Epochs : ActiveSetSize(db, e).val = Cardinality(AcceptedFor(e))

\* C10 witness: two calls for one epoch were committed, a third found its ATX stored
C10_Witness ==
    /\ failed = {} /\ Quiescent
    /\ \E e \in Epochs : Cardinality(AcceptedFor(e)) = 2
    /\ lastOp = "StoreAtx:return"

\* C6 as stated: in every reachable state the NIPST store and the ATX store hold
\* entries for the same ids
C6_NipstIffAtx == DOMAIN db.nipsts = DOMAIN db.atxs

\* C6 amended: every stored body has its NIPST stored; a NIPST is stored without its
\* body only while a StoreAtx of that ATX stands between its two writes, or after the
\* body write of such a StoreAtx failed
C6_AtxImpliesNipst ==
    /\ DOMAIN db.atxs \subseteq DOMAIN db.nipsts
    /\ \A id \in DOMAIN db.nipsts \ DOMAIN db.atxs :
          \/ \E t \in Threads : pc[t] = "PutAtx" /\ Id(call[t].atx) = id
          \/ <<"PutAtx", id>> \in failed

\* C6 witness: a body write failed and left the NIPST behind, no StoreAtx is running
C6_Witness ==
    /\ \A t \in Threads : pc[t] = "idle"
    /\ \E id \in DOMAIN db.nipsts \ DOMAIN db.atxs : <<"PutAtx", id>> \in failed
    /\ StoredIds # {}

----------------------------------------------------------------------------
(* properties of the active-set cache *)

\* C8 as stated: whatever the cache holds, CalcActiveSetFromView returns for every ATX
\* the count or the error it returns with an empty cache
C8_CacheEquivalence ==
    \A atx \in ViewInputs :
        LET cached == CalcActiveSetFromView(db, atxCache, activesetCache, blocks, atx)
            fresh == CalcActiveSetFromView(db, atxCache, <<>>, blocks, atx)
        IN  cached.err = fresh.err /\ cached.count = fresh.count

----------------------------------------------------------------------------
(* properties of the queries *)

\* the layers of the epochs past genesis
LaterLayers == {layer \in Layers : GetEpoch(layer) >= 1}

\* C18: for a layer of epoch e >= 1, an answer active = true names a stored ATX whose
\* target epoch is e, whose node is the one registered under the ed key, and which is
\* that node's last ATX or the previous ATX of its last ATX
C18_ActiveIsSound ==
    \A edId \in EdKeys, layer \in LaterLayers :
        LET r == IsIdentityActive(db, atxCache, ids, edId, layer)
        IN  r.active =>
              /\ r.err = "nil"
              /\ edId \in ids
              /\ r.id \in StoredIds
              /\ TargetEpoch(db.atxs[r.id]) = GetEpoch(layer)
              /\ db.atxs[r.id].NodeId = edId
              /\ Has(db.last, edId)
              /\ \/ r.id = db.last[edId]
                 \/ r.id = db.atxs[db.last[edId]].PrevATXId

\* C18 witness: IsIdentityActive has answered active, and some identity is active
\* through the ATX before its last one
C18_Witness ==
    /\ lastOp = "IsIdentityActive:active"
    /\ \E edId \in EdKeys, layer \in LaterLayers :
          LET r == IsIdentityActive(db, atxCache, ids, edId, layer)
          IN  r.active /\ r.id # db.last[edId]

\* the last ATX of a registered node, as the stores hold it
LastBody(n) == db.atxs[db.last[n]]

C20_PosAtxEpoch ==
    \A e \in Epochs :
        LET r == GetPosAtxId(db, e)
        IN  /\ r.err = "nil" <=>
                 (Has(db.pos, posAtxKey) /\ GetEpoch(db.pos[posAtxKey].LayerId) = e)
            /\ ~Has(db.pos, posAtxKey) => r.err = "ErrNotFound"
            /\ (Has(db.pos, posAtxKey) /\ GetEpoch(db.pos[posAtxKey].LayerId) # e) =>
                  r.err = "WrongEpoch"
            /\ r.err = "nil" =>
                  /\ r.id \in StoredIds
                  /\ GetEpoch(db.atxs[r.id].PubLayerIdx) = e
            /\ r.err # "nil" => r.id = EmptyAtxId

\* C20 witness: GetPosAtxId has refused a record of another epoch, with ATXs of two
\* epochs stored
C20_Witness ==
    /\ lastOp = "GetPosAtxId:error"
    /\ Has(db.pos, posAtxKey)
    /\ \E a, b \in StoredIds :
          GetEpoch(db.atxs[a].PubLayerIdx) # GetEpoch(db.atxs[b].PubLayerIdx)

----------------------------------------------------------------------------
(* properties of the validators *)

PrevErrors ==
    {"PrevAtxNotFound", "PrevAtxIdentityMismatch", "SequenceNotMonotonic",
     "NonZeroSequenceWithoutPrev"}
PosErrors == {"PosAtxNotFound", "PosAtxNotBefore", "PosAtxTooOld", "MissingPosAtx"}
ActiveSetErrors == {"ActiveSetCalcFailed", "ActiveSetMismatch"}

\* the four requirements, read off the stores
PrevChainOk(atx) ==
    IF atx.PrevATXId = EmptyAtxId THEN atx.Sequence = 0
    ELSE /\ atx.PrevATXId \in StoredIds
         /\ db.atxs[atx.PrevATXId].NodeId = atx.NodeId
         /\ atx.Sequence = db.atxs[atx.PrevATXId].Sequence + 1

PosDistance(atx) == atx.PubLayerIdx - db.atxs[atx.PositioningAtx].PubLayerIdx

PositioningOk(atx) ==
    IF atx.PositioningAtx = EmptyAtxId THEN IsGenesis(GetEpoch(atx.PubLayerIdx))
    ELSE /\ atx.PositioningAtx \in StoredIds
         /\ 0 < PosDistance(atx)
         /\ PosDistance(atx) <= LayersPerEpoch

ActiveSetOk(atx) ==
    LET calc == CalcActiveSetFromView(db, atxCache, activesetCache, blocks, atx)
    IN  /\ calc.err = "nil" \/ IsGenesis(GetEpoch(atx.PubLayerIdx))
        /\ atx.ActiveSetSize = calc.count

NipstOk(atx) == atx.Nipst = "valid"

\* C14: SyntacticallyValidateAtx returns ok exactly when the four checks pass, and
\* otherwise the error of the first failing check in the order previous ATX,
\* positioning ATX, active set, NIPST
C14_FirstFailureInOrder ==
    \A atx \in AtxInputs :
        LET err == SyntacticallyValidateAtx(db, atxCache, activesetCache, blocks, atx).err
        IN  /\ err = "nil" <=>
                 (PrevChainOk(atx) /\ PositioningOk(atx) /\ ActiveSetOk(atx) /\ NipstOk(atx))
            /\ ~PrevChainOk(atx) => err \in PrevErrors
            /\ (PrevChainOk(atx) /\ ~PositioningOk(atx)) => err \in PosErrors
            /\ (PrevChainOk(atx) /\ PositioningOk(atx) /\ ~ActiveSetOk(atx)) =>
                  err \in ActiveSetErrors
            /\ (/\ PrevChainOk(atx) /\ PositioningOk(atx)
                /\ ActiveSetOk(atx) /\ ~NipstOk(atx)) => err = "NipstInvalid"

\* C14 witness: a validation has failed, and some ATX fails the first check and a
\* later one naming a stored positioning ATX
C14_Witness ==
    /\ lastOp = "Validate:err"
    /\ \E atx \in AtxInputs :
          /\ atx.PositioningAtx \in StoredIds
          /\ ~PrevChainOk(atx) /\ ~PositioningOk(atx) /\ ~NipstOk(atx)

\* C15: with a stored positioning ATX the positioning check passes exactly when the
\* ATX is published 1 to LayersPerEpoch layers after it
C15_PosDistanceBoundary ==
    \A atx \in AtxInputs :
        atx.PositioningAtx \in StoredIds =>
            (checkPos(db, atxCache, atx) = "nil" <=>
                (0 < PosDistance(atx) /\ PosDistance(atx) <= LayersPerEpoch))

\* C15 witness: an ATX exactly LayersPerEpoch layers after its positioning ATX has
\* passed validation, and the stores offer distances of 0, below 0 and one too many
C15_Witness ==
    /\ \E atx \in pending :
          atx.PositioningAtx \in StoredIds /\ PosDistance(atx) = LayersPerEpoch
    /\ \E x, y, z \in {atx \in AtxInputs : atx.PositioningAtx \in StoredIds} :
          /\ PosDistance(x) = LayersPerEpoch + 1
          /\ PosDistance(y) = 0
          /\ PosDistance(z) < 0

----------------------------------------------------------------------------
(* properties of the active-set count *)

\* the stored ATXs targeting the publication epoch of atx that some block of the
\* epoch before, reachable from the view of atx, refers to
CountedIds(atx) ==
    {id \in StoredIds :
        /\ TargetEpoch(db.atxs[id]) = GetEpoch(atx.PubLayerIdx)
        /\ \E b \in Reach(blocks, atx.View) :
              /\ GetEpoch(blocks[b].LayerIndex) = GetEpoch(atx.PubLayerIdx) - 1
              /\ id \in blocks[b].AtxIds}

\* C17: on a cache miss, for a publication epoch p >= 1 and a view the mesh holds,
\* CalcActiveSetFromView returns the number of distinct ATX ids targeting p that the
\* blocks of epoch p - 1 reachable from the view refer to
C17_CountOnMiss ==
    \A atx \in ViewInputs :
        (/\ GetEpoch(atx.PubLayerIdx) >= 1
         /\ atx.View \subseteq DOMAIN blocks
         /\ ~Has(activesetCache, ViewHash(atx.View))) =>
            LET r == CalcActiveSetFromView(db, atxCache, activesetCache, blocks, atx)
            IN  r.err = "nil" /\ r.count = Cardinality(CountedIds(atx))

\* C17 witness: a view of two blocks of epoch 0 that refer to the same ATX, one of them
\* also to an ATX of another target epoch, has just been counted as 1 for epoch 1
C17_Witness ==
    /\ lastOp = "Calc:miss"
    /\ DOMAIN blocks = {1, 2}
    /\ GetEpoch(blocks[1].LayerIndex) = 0 /\ GetEpoch(blocks[2].LayerIndex) = 0
    /\ \E id \in blocks[1].AtxIds \cap blocks[2].AtxIds : TargetEpoch(db.atxs[id]) = 1
    /\ \E id \in blocks[1].AtxIds \cup blocks[2].AtxIds : TargetEpoch(db.atxs[id]) # 1
    /\ Has(activesetCache, ViewHash({1, 2}))
    /\ activesetCache[ViewHash({1, 2})] = 1

----------------------------------------------------------------------------
(* properties of the readers *)

\* some StoreAtx has written its body and not yet its lastAtx pointer
PartlyApplied == \E t \in Threads : pc[t] \in {"UpdatePos", "CounterGet", "CounterPut", "AddNode"}

\* the returns of the queries that have read the index (a GetAtx cache hit has not)
IndexReads ==
    {"GetNodeLastAtxId:ok", "GetNodeLastAtxId:error", "GetPosAtxId:ok", "GetPosAtxId:error",
     "ActiveSetSize:ok", "ActiveSetSize:error", "GetAtx:ok", "GetAtx:error"}

\* C11 as stated: no query reads the index while a StoreAtx has applied only some of
\* its writes
C11_ReadersSeeWholeStoreAtx == lastOp \in IndexReads => ~PartlyApplied

\* C12: whatever lastAtx[n] or the posAtx record names has its body and its NIPST
\* stored, so GetAtx finds it: in every state, the middle of a StoreAtx and the states
\* after a failed write included
C12_PointersNameStoredAtxs ==
    /\ \A n \in DOMAIN db.last :
          /\ db.last[n] \in DOMAIN db.atxs \cap DOMAIN db.nipsts
          /\ GetAtx(db, atxCache, db.last[n]).err = "nil"
    /\ Has(db.pos, posAtxKey) =>
          /\ db.pos[posAtxKey].AtxId \in DOMAIN db.atxs \cap DOMAIN db.nipsts
          /\ GetAtx(db, atxCache, GetPosAtxId(db, GetEpoch(db.pos[posAtxKey].LayerId)).id).err = "nil"

\* C12 witness: GetPosAtxId has returned the ATX of a StoreAtx that has not yet
\* written its counter
C12_Witness ==
    /\ lastOp = "GetPosAtxId:ok"
    /\ \E t \in Threads :
          /\ pc[t] = "CounterGet"
          /\ db.pos[posAtxKey].AtxId = Id(call[t].atx)

----------------------------------------------------------------------------
(* properties of concurrent ProcessAtx calls *)

----------------------------------------------------------------------------
(* properties of the steps of StoreAtx *)

\* the fields of the store a step at the given label may write
WrittenBy(label) ==
    CASE label = "PutNipst" -> {"nipsts"}
      [] label = "PutAtx" -> {"atxs"}
      [] label = "UpdatePos" -> {"pos"}
      [] label = "CounterPut" -> {"counter"}
      [] label = "AddNode" -> {"last"}
      [] OTHER -> {}

\* the step that follows a step that returned no error
StepAfter(label) ==
    CASE label = "PutNipst" -> "PutAtx"
      [] label = "PutAtx" -> "UpdatePos"
      [] label = "UpdatePos" -> "CounterGet"
      [] label = "CounterGet" -> "CounterPut"
      [] label = "CounterPut" -> "AddNode"
      [] OTHER -> "Unlock"

StoreFields == {"atxs", "nipsts", "pos", "counter", "last"}

\* what the earlier steps of the call of thread t have written is in the store
EarlierWritesInPlace(t) ==
    LET atx == call[t].atx
        after(labels) == pc[t] \in labels
    IN  /\ after({"PutAtx", "UpdatePos", "CounterGet", "CounterPut", "AddNode"})
               => Has(db.nipsts, Id(atx))
        /\ after({"UpdatePos", "CounterGet", "CounterPut", "AddNode"})
               => Has(db.atxs, Id(atx))
        /\ after({"CounterGet", "CounterPut", "AddNode"})
               => Has(db.pos, posAtxKey) /\ db.pos[posAtxKey].LayerId >= atx.PubLayerIdx
        /\ after({"AddNode"}) => Has(db.counter, call[t].ech)

\* C21: StoreAtx of an ATX whose body is not stored writes the NIPST blob, the body,
\* posAtx, the epoch counter and lastAtx in that order, one step each; a step whose
\* write fails changes nothing, is followed by the return and by none of the later
\* steps, and what the earlier steps wrote stays in the store
C21_WriteOrderStopAtFailure ==
    [][\A t \in Threads :
          pc'[t] # pc[t] /\ pc[t] \notin {"idle", "Lock", "Exists"} =>
              /\ EarlierWritesInPlace(t)
              /\ pc[t] = "PutNipst" => ~Has(db.atxs, Id(call[t].atx))
              /\ \A f \in StoreFields : db'[f] # db[f] => f \in WrittenBy(pc[t])
              /\ IF lastOp' = "StoreAtx:ioerror"
                 THEN db' = db /\ pc'[t] = "Unlock"
                 ELSE pc'[t] = (IF pc[t] = "Unlock" THEN "idle" ELSE StepAfter(pc[t]))
              /\ pc[t] = "Unlock" => db' = db]_vars

\* the lastAtx write of a call has failed and the call has returned: the four earlier
\* writes are in the store, the pointer is not
C21_Witness ==
    \E f \in failed :
        /\ f[1] = "AddNode"
        /\ \A t \in Threads : pc[t] = "idle"
        /\ Has(db.nipsts, f[2]) /\ Has(db.atxs, f[2])
        /\ Has(db.pos, posAtxKey) /\ db.counter # <<>>
        /\ db.last = <<>>

----------------------------------------------------------------------------
(* properties of the validators as a whole *)

ValidatorReturns ==
    {"Validate:ok", "Validate:err", "Contextual:ok", "Contextual:err", "Calc:hit", "Calc:miss"}

\* C24: a call of SyntacticallyValidateAtx, ContextuallyValidateAtx or
\* CalcActiveSetFromView, whatever it returns, leaves the ATX store, the NIPST store,
\* posAtx, the epoch counters and the lastAtx pointers as they were; the identity
\* store and the mesh are untouched as well, only the two caches may change
C24_ValidationReadOnly ==
    [][lastOp' \in ValidatorReturns =>
          /\ \A f \in {"atxs", "nipsts", "pos", "counter", "last"} : db'[f] = db[f]
          /\ UNCHANGED <<ids, blocks>>]_vars

\* a validator has returned an error on a store that holds ATXs, after calls that
\* filled both caches
C24_Witness ==
    /\ lastOp = "Contextual:err"
    /\ db.atxs # <<>> /\ db.last # <<>>
    /\ atxCache # <<>> /\ activesetCache # <<>>

----------------------------------------------------------------------------
(* properties of the ATX cache *)

\* the caches left by evicting any entries of the ATX cache
EvictedCaches == {[k \in S |-> atxCache[k]] : S \in SUBSET (DOMAIN atxCache)}

\* C25: every entry of the ATX cache is for an id whose body is in the ATX store and
\* is that body, so GetAtx of an id other than EMPTY returns the same ATX, or the same
\* not-found error, whatever part of the cache has been evicted; GetAtx(EMPTY) returns
\* its error whatever the cache and the store hold
C25_CacheTransparent ==
    /\ \A id \in DOMAIN atxCache : Has(db.atxs, id) /\ atxCache[id] = db.atxs[id]
    /\ \A c \in EvictedCaches :
          /\ \A id \in AskedIds : GetAtx(db, c, id) = GetAtx(db, atxCache, id)
          /\ GetAtx(db, c, EmptyAtxId) = [err |-> "empty"]

\* the entry of a stored ATX has been evicted, with a StoreAtx under way whose body is
\* not stored yet
C25_Witness ==
    /\ lastOp = "AtxCache:evict"
    /\ \E id \in StoredIds : ~Has(atxCache, id)
    /\ \E id \in AskedIds : GetAtx(db, atxCache, id).err = "ErrNotFound"

----------------------------------------------------------------------------
(* IsIdentityActive against the whole chain of an identity *)

\* the stored ATXs of a node that target an epoch
TargetingAtxs(nodeId, e) ==
    {id \in StoredIds : db.atxs[id].NodeId = nodeId /\ TargetEpoch(db.atxs[id]) = e}

\* C26: for a layer of an epoch e >= 1 and a registered identity whose ATXs are all
\* stored, IsIdentityActive answers active exactly when the store holds an ATX of the
\* identity that targets e
C26_ActiveIffTargeted ==
    \A edId \in EdKeys, layer \in Layers :
        LET r == IsIdentityActive(db, atxCache, ids, edId, layer)
        IN  GetEpoch(layer) >= 1 /\ edId \in ids /\ failed = {} =>
                (r.active <=> TargetingAtxs(edId, GetEpoch(layer)) # {})

----------------------------------------------------------------------------
(* what a StoreAtx that returns nil has left in the store *)

\* the thread inside StoreAtx is about to return nil: it found the body (line 269) or
\* its last write succeeded (line 292)
ReturnsOk(t) ==
    /\ pc[t] = "Unlock" /\ lock.writer = t
    /\ lastOp \in {"StoreAtx:exists", "StoreAtx:committed"}

\* C27: when StoreAtx(e, a) returns nil, also on the replay of a call that failed, the
\* NIPST and the body of a are stored, the counter of e has been incremented for a,
\* posAtx names a layer at or above the publication layer of a, and lastAtx of the node
\* has been set to a
C27_OkMeansIndexed ==
    \A t \in Threads :
        ReturnsOk(t) =>
            LET atx == call[t].atx
            IN  /\ Has(db.nipsts, Id(atx)) /\ Has(db.atxs, Id(atx))
                /\ Has(db.pos, posAtxKey) /\ db.pos[posAtxKey].LayerId >= atx.PubLayerIdx
                /\ Has(db.counter, call[t].ech)
                /\ <<call[t].ech, Id(atx)>> \in accepted

----------------------------------------------------------------------------
(* the three locks: every operation step by step, each lock held across steps *)

\* the first ATX of node 1, handed to StoreAtx directly, and its successor one epoch
\* later, which goes through validation and ProcessAtx and which the queries ask about
FirstAtx ==
    [NodeId |-> 1, Sequence |-> 0, PrevATXId |-> EmptyAtxId, PositioningAtx |-> EmptyAtxId,
     PubLayerIdx |-> 0, ActiveSetSize |-> 0, View |-> {}, Nipst |-> "valid"]

SecondAtx ==
    [NodeId |-> 1, Sequence |-> 1, PrevATXId |-> Id(FirstAtx), PositioningAtx |-> Id(FirstAtx),
     PubLayerIdx |-> LayersPerEpoch, ActiveSetSize |-> 0, View |-> {}, Nipst |-> "valid"]

\* the queries that take a lock
LockedQueries == {"GetAtx", "ActiveSetSize", "GetNipst", "IsIdentityActive"}

\* a thread calls a query about an ATX: its id, its publication epoch, or its node and
\* publication layer; a GetAtx that hits the cache returns at once
QueryCall(t, op, atx) ==
    /\ pc[t] = "idle"
    /\ t \notin lock.processAtx
    /\ call' = [call EXCEPT ![t] = [ech |-> processEpoch(atx), atx |-> atx, val |-> 0]]
    /\ goto(t, CASE op = "GetAtx" ->
                       IF Has(atxCache, Id(atx)) THEN "idle" ELSE "GetAtx:RLock"
                 [] op = "ActiveSetSize" -> "ActiveSetSize:RLock"
                 [] op = "GetNipst" -> "GetNipst:RLock"
                 [] OTHER -> "IsIdentityActive")
    /\ UNCHANGED pingVars
    /\ lastOp' = "Query"
    /\ UNCHANGED <<db, atxCache, activesetCache, blocks, pending, ids, lock, histVars>>

\* the id IsIdentityActive hands to GetAtx next: the last ATX of the node (lines 504-509),
\* then its previous ATX when the last one targets a later epoch (lines 522-529);
\* EMPTY when it returns instead (genesis layer, unknown identity, no last ATX, done)
NextGetAtx(t) ==
    LET atx == call[t].atx
        epoch == GetEpoch(atx.PubLayerIdx)
        last == GetNodeLastAtxId(db, atx.NodeId)
        got == GetAtx(db, atxCache, last.id)
    IN  IF IsGenesis(epoch) \/ GetIdentity(ids, atx.NodeId).err # "nil" \/ last.err # "nil"
        THEN EmptyAtxId
        ELSE IF call[t].val = 0 THEN last.id
        ELSE IF call[t].val = 1 /\ got.err = "nil" /\ TargetEpoch(got.atx) > epoch
        THEN got.atx.PrevATXId
        ELSE EmptyAtxId

\* IsIdentityActive between its GetAtx calls: it returns, reads the ATX from the cache,
\* or goes for the shared lock
IsIdentityActiveStep(t) ==
    LET id == NextGetAtx(t)
    IN  /\ pc[t] = "IsIdentityActive"
        /\ IF id = EmptyAtxId
           THEN goto(t, "idle") /\ call' = call
           ELSE IF Has(atxCache, id)
           THEN pc' = pc /\ call' = [call EXCEPT ![t].val = @ + 1]
           ELSE goto(t, "IsIdentityActive:RLock") /\ call' = call
        /\ UNCHANGED pingVars
        /\ lastOp' = "Query"
        /\ UNCHANGED <<db, atxCache, activesetCache, blocks, pending, ids, lock, histVars>>

\* lines 355, 474: db.RLock()
RLock(t) ==
    /\ pc[t] \in {"GetAtx:RLock", "ActiveSetSize:RLock", "IsIdentityActive:RLock"}
    /\ canRLock(lock)
    /\ lock' = [lock EXCEPT !.readers = @ \cup {t}]
    /\ goto(t, CASE pc[t] = "GetAtx:RLock" -> "GetAtx:RUnlock"
                 [] pc[t] = "ActiveSetSize:RLock" -> "ActiveSetSize:RUnlock"
                 [] OTHER -> "IsIdentityActive:RUnlock")
    /\ UNCHANGED pingVars
    /\ lastOp' = "Query"
    /\ UNCHANGED <<db, atxCache, activesetCache, blocks, pending, ids, call, histVars>>

\* lines 356-357, 475-476: the Get, then db.RUnlock() whatever the Get returned; GetAtx
\* adds what it found to the cache and returns (lines 477-486)
RUnlock(t) ==
    LET id == IF pc[t] = "GetAtx:RUnlock" THEN Id(call[t].atx) ELSE NextGetAtx(t)
        found == GetAtx(db, atxCache, id).err = "nil"
    IN  /\ pc[t] \in {"GetAtx:RUnlock", "ActiveSetSize:RUnlock", "IsIdentityActive:RUnlock"}
        /\ lock' = [lock EXCEPT !.readers = @ \ {t}]
        /\ atxCache' = IF pc[t] = "ActiveSetSize:RUnlock" THEN atxCache
                       ELSE GetAtxCache(db, atxCache, id)
        /\ IF pc[t] = "IsIdentityActive:RUnlock" /\ found
           THEN goto(t, "IsIdentityActive") /\ call' = [call EXCEPT ![t].val = @ + 1]
           ELSE goto(t, "idle") /\ call' = call
        /\ UNCHANGED pingVars
        /\ lastOp' = "Query"
        /\ UNCHANGED <<db, activesetCache, blocks, pending, ids, histVars>>

\* line 322: nipstLock.RLock()
NipstRLock(t) ==
    /\ pc[t] = "GetNipst:RLock"
    /\ lock.nipstWriter = 0
    /\ lock' = [lock EXCEPT !.nipstReaders = @ \cup {t}]
    /\ goto(t, "GetNipst:RUnlock")
    /\ UNCHANGED pingVars
    /\ lastOp' = "Query"
    /\ UNCHANGED <<db, atxCache, activesetCache, blocks, pending, ids, call, histVars>>

\* lines 323-334: the Get, nipstLock.RUnlock(), then the return
NipstRUnlock(t) ==
    /\ pc[t] = "GetNipst:RUnlock"
    /\ lock' = [lock EXCEPT !.nipstReaders = @ \ {t}]
    /\ goto(t, "idle")
    /\ UNCHANGED pingVars
    /\ lastOp' = "Query"
    /\ UNCHANGED <<db, atxCache, activesetCache, blocks, pending, ids, call, histVars>>

\* line 263, reached from a caller or from ProcessAtx line 62: db.Lock() first shuts out
\* the other writers and the readers that come after it (sync.RWMutex) ...
WriterLock(t) ==
    /\ pc[t] \in {"Lock", "ProcessStore"}
    /\ lock.writer = 0
    /\ lock' = [lock EXCEPT !.writer = t]
    /\ goto(t, IF pc[t] = "Lock" THEN "Lock:Drain" ELSE "ProcessStore:Drain")
    /\ UNCHANGED pingVars
    /\ lastOp' = "StoreAtx:lock"
    /\ UNCHANGED <<db, atxCache, activesetCache, blocks, pending, ids, call, histVars>>

\* ... and returns when the readers that hold the lock have left
WriterDrained(t) ==
    /\ pc[t] \in {"Lock:Drain", "ProcessStore:Drain"}
    /\ lock.readers = {}
    /\ goto(t, IF pc[t] = "Lock:Drain" THEN "Exists" ELSE "ProcessStoreWrite")
    /\ UNCHANGED pingVars
    /\ lastOp' = "StoreAtx:lock"
    /\ UNCHANGED <<db, atxCache, activesetCache, blocks, pending, ids, call, lock, histVars>>

\* line 300: nipstLock.Lock() of a new ATX, in the same two stages
NipstLock(t) ==
    /\ pc[t] = "PutNipst" \/ (pc[t] = "ProcessStoreWrite" /\ ~atxExists(db, call[t].atx))
    /\ lock.nipstWriter = 0
    /\ lock' = [lock EXCEPT !.nipstWriter = t]
    /\ goto(t, IF pc[t] = "PutNipst" THEN "PutNipst:Drain" ELSE "ProcessStoreWrite:Drain")
    /\ UNCHANGED pingVars
    /\ lastOp' = "StoreAtx:lock"
    /\ UNCHANGED <<db, atxCache, activesetCache, blocks, pending, ids, call, histVars>>

\* lines 301-302: the NIPST Put and nipstLock.Unlock()
NipstPut(t) ==
    /\ pc[t] = "PutNipst:Drain"
    /\ lock.nipstReaders = {}
    /\ db' = putNipst(db, call[t].atx)
    /\ lock' = [lock EXCEPT !.nipstWriter = 0]
    /\ goto(t, "PutAtx")
    /\ UNCHANGED pingVars
    /\ lastOp' = "StoreAtx:nipst"
    /\ UNCHANGED <<atxCache, activesetCache, blocks, pending, ids, call, histVars>>

\* lines 267-289: the writes of StoreAtx inside ProcessAtx; an ATX that is stored already
\* returns at line 269 without nipstLock, a new one releases nipstLock after the NIPST
\* Put (line 302)
ProcessStoreWrite(t) ==
    LET atx == call[t].atx
    IN  /\ \/ pc[t] = "ProcessStoreWrite" /\ atxExists(db, atx)
           \/ pc[t] = "ProcessStoreWrite:Drain" /\ lock.nipstReaders = {}
        /\ db' = processStore(db, atx)
        /\ lock' = [lock EXCEPT !.nipstWriter = 0]
        /\ order' = IF atxExists(db, atx) THEN order ELSE Append(order, Id(atx))
        /\ accepted' = IF atxExists(db, atx) THEN accepted
                       ELSE accepted \cup {<<call[t].ech, Id(atx)>>}
        /\ goto(t, "ProcessStoreUnlock")
        /\ UNCHANGED pingVars
        /\ lastOp' = "ProcessAtx:stored"
        /\ UNCHANGED <<atxCache, activesetCache, blocks, pending, ids, call, failed, passed>>

\* line 264: the deferred db.Unlock() of StoreAtx, back in ProcessAtx
ProcessStoreUnlock(t) ==
    /\ pc[t] = "ProcessStoreUnlock"
    /\ lock' = [lock EXCEPT !.writer = 0]
    /\ goto(t, "ProcessIdentity")
    /\ UNCHANGED pingVars
    /\ lastOp' = "ProcessAtx:dbunlock"
    /\ UNCHANGED <<db, atxCache, activesetCache, blocks, pending, ids, call, histVars>>

\* the steps of a thread inside a call
ThreadStep(t) ==
    \/ WriterLock(t)
    \/ WriterDrained(t)
    \/ CheckExists(t)
    \/ NipstLock(t)
    \/ NipstPut(t)
    \/ PutAtx(t)
    \/ UpdatePos(t)
    \/ CounterGet(t)
    \/ CounterPut(t)
    \/ AddNode(t)
    \/ FailPut(t)
    \/ Unlock(t)
    \/ ProcessLock(t)
    \/ ProcessExists(t)
    \/ ProcessValidate(t)
    \/ ProcessStoreWrite(t)
    \/ ProcessStoreUnlock(t)
    \/ ProcessReturn(t)
    \/ IsIdentityActiveStep(t)
    \/ RLock(t)
    \/ RUnlock(t)
    \/ NipstRLock(t)
    \/ NipstRUnlock(t)

NextLocks ==
    \/ Outstanding < NumThreads /\ Validate(SecondAtx)
    \/ \E t \in Threads :
          \/ Call(t, processEpoch(FirstAtx), FirstAtx)
          \/ \E atx \in pending : ProcessCall(t, atx)
          \/ \E op \in LockedQueries : QueryCall(t, op, SecondAtx)
          \/ ThreadStep(t)

SpecLocks == Init /\ [][NextLocks]_vars

\* a goroutine that can take a step is scheduled, and one that waits for a lock gets it
\* when the lock is free again and again: sync.Mutex and sync.RWMutex hand a released
\* lock to the goroutines that wait for it
SpecLocksFair == SpecLocks /\ \A t \in Threads : SF_vars(ThreadStep(t))

----------------------------------------------------------------------------
(* the ping protocol of peer discovery (src/p2p/discovery/ping.go) *)

\* the address book learns of a peer from the rest of discovery
AddAddresses(peer) ==
    /\ ~table[peer].known
    /\ table' = [table EXCEPT ![peer].known = TRUE]
    /\ lastOp' = "AddAddresses"
    /\ UNCHANGED <<atxVars, handler, pings, wire>>

\* lines 17-26: the message server hands a ping request to the handler; valid is the
\* verdict of pi.Valid() on the node info it carries
IncomingPing(from, valid) ==
    /\ handler.pc = "idle"
    /\ handler.n < MaxIncoming
    /\ handler' = [pc |-> "verify", from |-> from, valid |-> valid, n |-> handler.n + 1,
                   task |-> 0]
    /\ lastOp' = "IncomingPing"
    /\ UNCHANGED <<atxVars, table, pings, wire>>

\* lines 51-72: verifyPinger up to the go statement; an invalid node info or an unknown
\* peer makes the handler return nil (lines 28-31)
VerifyPinger ==
    LET from == handler.from
        n == handler.n
    IN  /\ handler.pc = "verify"
        /\ IF ~handler.valid \/ ~table[from].known
           THEN /\ handler' = [handler EXCEPT !.pc = "idle"]
                /\ pings' = pings
                /\ lastOp' = "Handler:nil"
           ELSE IF table[from].needsPing
           THEN /\ handler' = [handler EXCEPT !.pc = "respond", !.task = n]
                /\ pings' = [pings EXCEPT ![n] = [NoPing EXCEPT !.peer = from, !.pc = "start"]]
                /\ lastOp' = "Handler:launch"
           ELSE /\ handler' = [handler EXCEPT !.pc = "respond"]
                /\ pings' = pings
                /\ lastOp' = "Handler:verified"
        /\ UNCHANGED <<atxVars, table, wire>>

\* the handler calling foo() itself: it goes on when Ping has returned
canRespondAfterPing(h, ps) == h.task = 0 \/ ps[h.task].pc = "returned"

\* line 71: `go foo()`; the handler goes on without joining the goroutine
canRespond(h, ps) == TRUE

\* lines 75-80 and 34-42: the rest of verifyPinger, then the pong payload is returned
\* to the message server, which sends it
Respond ==
    /\ handler.pc = "respond"
    /\ canRespond(handler, pings)
    /\ table' = [table EXCEPT ![handler.from].known = TRUE]
    /\ wire' = Append(wire, <<"pong", handler.n>>)
    /\ handler' = [handler EXCEPT !.pc = "idle"]
    /\ lastOp' = "Handler:pong"
    /\ UNCHANGED <<atxVars, pings>>

\* lines 89-115: Ping registers the response callback and sends the request
SendRequest(i) ==
    /\ pings[i].pc = "start"
    /\ pings' = [pings EXCEPT ![i].pc = "select", ![i].cb = "registered"]
    /\ wire' = Append(wire, <<"ping", i>>)
    /\ lastOp' = "Ping:sent"
    /\ UNCHANGED <<atxVars, table, handler>>

\* lines 111-115: SendRequest returns an error, Ping returns it
SendRequestFail(i) ==
    /\ pings[i].pc = "start"
    /\ pings' = [pings EXCEPT ![i].pc = "returned", ![i].err = "send"]
    /\ lastOp' = "Ping:senderror"
    /\ UNCHANGED <<atxVars, table, handler, wire>>

\* lines 94-108: the pong arrives and the message server runs the callback; an
\* unreadable pong makes it return, which closes the channel (lines 95, 100-103), else
\* it reaches the send on the unbuffered channel (line 108)
PongArrives(i, msg) ==
    /\ pings[i].cb = "registered"
    /\ pings' = IF msg = "unreadable"
                THEN [pings EXCEPT ![i].cb = "done", ![i].ch = "closed"]
                ELSE [pings EXCEPT ![i].cb = "send", ![i].msg = msg]
    /\ lastOp' = "Pong:arrived"
    /\ UNCHANGED <<atxVars, table, handler, wire>>

\* lines 119-131: the select receives from the channel: the id the callback is sending,
\* which lets the callback return and close the channel, or nil from the closed channel
ReceiveCh(i) ==
    LET ping == pings[i]
    IN  /\ ping.pc = "select"
        /\ ping.cb = "send" \/ ping.ch = "closed"
        /\ pings' = [pings EXCEPT ![i] =
                        IF ping.cb = "send"
                        THEN [ping EXCEPT !.pc = "returned", !.cb = "done", !.ch = "closed",
                                          !.err = IF ping.msg = "same" THEN "nil"
                                                  ELSE "different key"]
                        ELSE [ping EXCEPT !.pc = "returned", !.err = "failed sending"]]
        /\ table' = IF ping.cb = "send" /\ ping.msg = "same"
                    THEN [table EXCEPT ![ping.peer].needsPing = FALSE]
                    ELSE table
        /\ lastOp' = "Ping:received"
        /\ UNCHANGED <<atxVars, handler, wire>>

\* lines 132-133: the timer fires first, or is chosen when both cases are ready
Timeout(i) ==
    /\ pings[i].pc = "select"
    /\ pings' = [pings EXCEPT ![i].pc = "returned", ![i].err = "ping timeouted"]
    /\ lastOp' = "Ping:timeout"
    /\ UNCHANGED <<atxVars, table, handler, wire>>

NextPing ==
    \/ \E peer \in Peers : AddAddresses(peer)
    \/ \E from \in Peers, valid \in BOOLEAN : IncomingPing(from, valid)
    \/ VerifyPinger
    \/ Respond
    \/ \E i \in PingIds :
          \/ SendRequest(i)
          \/ SendRequestFail(i)
          \/ \E msg \in {"same", "other", "unreadable"} : PongArrives(i, msg)
          \/ ReceiveCh(i)
          \/ Timeout(i)

SpecPing == Init /\ [][NextPing]_vars

\* goroutines that can take a step are scheduled; the arrival of messages is not forced
SpecPingFair ==
    /\ SpecPing
    /\ WF_vars(VerifyPinger) /\ WF_vars(Respond)
    /\ \A i \in PingIds :
          WF_vars(SendRequest(i) \/ SendRequestFail(i)) /\ WF_vars(ReceiveCh(i))
              /\ WF_vars(Timeout(i))

----------------------------------------------------------------------------
(* properties of the ping handler and of Ping *)

\* C22: once verifyPinger has passed the ping of a known peer, with or without a
\* follow-up Ping launched, the handler can return the pong payload in every state: its
\* return waits for no step of that Ping, whether the Ping is not yet sent, waits for
\* the pong, has timed out or has failed
C22_ResponderDoesNotBlock ==
    handler.pc = "respond" => ENABLED Respond

\* the pong of a request that launched a follow-up Ping has been returned while the
\* Ping still waits in its select
C22_Witness ==
    \E i \in PingIds :
        /\ pings[i].pc = "select"
        /\ \E k \in DOMAIN wire : wire[k] = <<"pong", i>>

\* C23: the request of a follow-up Ping is sent only after the pong of the ping
\* request that launched it has been returned
C23_PongBeforeFollowUp ==
    \A k \in DOMAIN wire :
        wire[k][1] = "ping" => \E j \in 1..(k - 1) : wire[j] = <<"pong", wire[k][2]>>

\* C28: a response callback that has begun to run finishes: it returns and its channel
\* is closed, whether Ping receives the id, times out first or has already returned
C28_CallbackFinishes ==
    \A i \in PingIds :
        (pings[i].cb = "send") ~> (pings[i].cb = "done" /\ pings[i].ch = "closed")

----------------------------------------------------------------------------
(* properties of the three locks *)

HoldsProcess(t) == t \in lock.processAtx
HoldsIndex(t) == lock.writer = t \/ t \in lock.readers
HoldsNipst(t) == lock.nipstWriter = t \/ t \in lock.nipstReaders

\* the positions where a writer waits for the readers to leave
DrainsIndex(t) == pc[t] \in {"Lock:Drain", "ProcessStore:Drain"}
DrainsNipst(t) == pc[t] \in {"PutNipst:Drain", "ProcessStoreWrite:Drain"}

\* the positions where a thread asks for a lock
WaitsProcess(t) == pc[t] = "ProcessLock"
WaitsIndex(t) ==
    pc[t] \in {"Lock", "ProcessStore", "ProcessExists", "GetAtx:RLock", "ActiveSetSize:RLock",
               "IsIdentityActive:RLock"}
WaitsNipst(t) == pc[t] \in {"PutNipst", "ProcessStoreWrite", "GetNipst:RLock"}

\* processAtxMutex is taken first, the index lock second, nipstLock last; a thread that
\* has returned holds none of them
LockOrder ==
    \A t \in Threads :
        /\ WaitsProcess(t) => ~HoldsProcess(t) /\ ~HoldsIndex(t) /\ ~HoldsNipst(t)
        /\ WaitsIndex(t) => ~HoldsIndex(t) /\ ~HoldsNipst(t)
        /\ DrainsIndex(t) => lock.writer = t /\ t \notin lock.readers /\ ~HoldsNipst(t)
        /\ WaitsNipst(t) => ~HoldsNipst(t) /\ (HoldsIndex(t) => lock.writer = t)
        /\ DrainsNipst(t) =>
               lock.nipstWriter = t /\ t \notin lock.nipstReaders /\ lock.writer = t
        /\ pc[t] = "idle" => ~HoldsProcess(t) /\ ~HoldsIndex(t) /\ ~HoldsNipst(t)

\* some thread inside a call can take a step
SomeThreadRuns ==
    (\E t \in Threads : pc[t] # "idle") => \E t \in Threads : ENABLED ThreadStep(t)

\* C29: the locks are taken in one nesting order (processAtxMutex, index lock,
\* nipstLock) and a thread that has returned, with or without an error, holds none; in
\* no state are all the threads inside a call blocked; under fair scheduling every
\* call returns
C29_LocksAreLive ==
    /\ [](LockOrder /\ SomeThreadRuns)
    /\ \A t \in Threads : (pc[t] # "idle") ~> (pc[t] = "idle")

\* a ProcessAtx thread holds processAtxMutex and the index lock and waits for nipstLock,
\* which a GetNipst holds
C29_Witness ==
    \E t \in Threads :
        /\ pc[t] = "ProcessStoreWrite:Drain" /\ HoldsProcess(t) /\ lock.writer = t
        /\ lock.nipstReaders # {}

====
